---- MODULE Spec2Model ----
(***************************************************************************)
(* Poll voting and cascading poll deletion of the hidden-feeds client.     *)
(*                                                                         *)
(* The store (the hosted database) holds the tables polls, poll_options,   *)
(* user_votes and comments.  Every browser tab is a client with its own    *)
(* session user (AuthContext), one PollCard and, inside it, one            *)
(* CommentSection.  Every `await supabase...` of a handler is two steps:   *)
(* the handler runs up to the await and sends the request; later the store *)
(* executes it and the handler resumes with the answer, up to its next     *)
(* await.  Any request may also fail at the store (network, row-level      *)
(* security): it then changes no row.                                      *)
(***************************************************************************)
EXTENDS Integers, FiniteSets, Sequences, Bags, TLC

\* ------------------------------------------------------------------ bounds
MaxLookups == 1         \* checkVoteStatus lookups in flight per tab
MaxVoteCalls == 1       \* handleVote calls in flight per tab
MaxComments == 1        \* comments inserted, in total
MaxTally == 4           \* largest per-option tally drawn for the rendering check
MaxPolls == 1           \* polls created through the poll form
MaxFetches == 2         \* fetchComments calls issued per tab
MaxEffects == 2         \* runs of the effect of a comment section per tab

\* ------------------------------------------------------------ the universe
None == "none"
Users == {"A", "B"}
Clients == {"c1", "c2"}
Polls == {"p1", "p2"}
CardPolls == {"p1"}      \* the poll the tabs show; p2 is other content

\* The rows CreatePollForm.handleSubmit inserts: the poll row with
\* total_votes 0 and its option rows with votes 0.
NewPollRow(uid) == [author_id |-> uid, total_votes |-> 0]
NewOptionRow(p, text) == [poll_id |-> p, text |-> text, votes |-> 0]

\* The row handleSubmitComment inserts for a comment on a poll.
NewCommentRow(id, p, uid) == [id |-> id, poll_id |-> p, post_id |-> None, author_id |-> uid]

\* Poll p1 "Best color?" of user A with the options Red and Blue, and poll p2
\* of user B with two options and one comment.
InitPolls == [p \in Polls |-> NewPollRow(IF p = "p1" THEN "A" ELSE "B")]
InitOptions ==
  [o \in {"red", "blue", "yes", "no"} |->
     CASE o = "red" -> NewOptionRow("p1", "Red")
       [] o = "blue" -> NewOptionRow("p1", "Blue")
       [] o = "yes" -> NewOptionRow("p2", "Yes")
       [] o = "no" -> NewOptionRow("p2", "No")]
InitComments == {NewCommentRow(0, "p2", "B")}
OptionIds == DOMAIN InitOptions

VARIABLES
  polls,          \* table polls: id -> row
  pollOptions,    \* table poll_options: id -> row
  userVotes,      \* table user_votes: a bag of rows
  comments,       \* table comments: a set of rows
  commentSeq,     \* comments inserted so far (the next id)
  user,           \* AuthContext.user of each tab (None: signed out)
  cardPoll,       \* PollCard prop poll of each tab (NoCard: none mounted)
  hasVoted,       \* PollCard state hasVoted
  selectedOption, \* PollCard state selectedOption
  pollData,       \* PollCard state pollData: option id -> votes shown
  chk,            \* checkVoteStatus lookups in flight, per tab
  vote,           \* handleVote calls in flight, per tab: the rows sent
  del,            \* the handleDelete call in flight, per tab
  delLog,         \* tables the running handleDelete call has sent deletes to
  isDeleting,     \* PollCard state isDeleting
  com,            \* the handleSubmitComment call in flight, per tab
  toast,          \* the last notification shown, and the tab that showed it
  shown,          \* the percentages last rendered (rendering check only)
  posts,          \* table posts: id -> row
  postLikes,      \* table post_likes: a set of rows
  profiles,       \* table profiles: the ids of its rows
  authUsers,      \* the authentication records: the ids of the accounts
  acct,           \* the handleDeleteAccount call in flight, per tab
  acctLog,        \* requests the running handleDeleteAccount call has sent
  deleteConfirmText, \* Profile state deleteConfirmText, a sequence of characters
  route,          \* the route each tab shows
  form,           \* the handleSubmit call of a create form in flight, per tab
  content,        \* create form state content (post form) or question (poll form)
  options,        \* CreatePollForm state options: the texts of the fields
  aiFeedback,     \* create form state aiFeedback
  fb,             \* the getFeedback call of a create form in flight, per tab
  usernames,      \* column username of profiles: id -> username (characters)
  emails,         \* column email of profiles: id -> email
  reg,            \* the register call in flight, per tab
  section,        \* the CommentSection followed in each tab: its props and effect
  commentList,    \* CommentSection state comments: the ids shown, in order
  fetchError,     \* CommentSection state fetchError (set or not)
  fetches,        \* fetchComments calls in flight, per tab
  fetchSeq,       \* fetchComments calls issued so far, per tab
  channels,       \* the realtime channels that are subscribed
  notif,          \* change notifications on their way to each tab's channel
  dcom,           \* the handleDeleteComment call in flight, per tab
  showDeleteConfirm,       \* PollCard state showDeleteConfirm
  isDeletingAccount,       \* Profile state isDeletingAccount
  showDeleteAccountDialog  \* Profile state showDeleteAccountDialog

vars == <<polls, pollOptions, userVotes, comments, commentSeq, user, cardPoll,
          hasVoted, selectedOption, pollData, chk, vote, del, delLog,
          isDeleting, com, toast, shown, posts, postLikes, profiles, authUsers,
          acct, acctLog, deleteConfirmText, route, form, content, options,
          aiFeedback, fb, usernames, emails, reg, section, commentList,
          fetchError, fetches, fetchSeq, channels, notif, dcom,
          showDeleteConfirm, isDeletingAccount, showDeleteAccountDialog>>

acctStore == <<posts, postLikes, profiles, authUsers>>
acctVars == <<posts, postLikes, profiles, authUsers, acct, acctLog,
              deleteConfirmText, route>>
formVars == <<content, options, aiFeedback, fb>>
regVars == <<usernames, emails, reg>>
sectionVars == <<section, commentList, fetchError, fetches, fetchSeq, channels,
                 notif, dcom>>
dialogVars == <<showDeleteConfirm, isDeletingAccount, showDeleteAccountDialog>>
restVars == <<form, formVars, regVars, sectionVars>>
pageVars == <<restVars, dialogVars>>

storeVars == <<polls, pollOptions, userVotes, comments, commentSeq>>
cardVars == <<cardPoll, hasVoted, selectedOption, pollData>>
delVars == <<del, delLog, isDeleting>>

\* ------------------------------------------------------------ store helpers
Restrict(f, S) == [x \in S |-> f[x]]

RECURSIVE SumOver(_, _)
SumOver(f, S) ==
  IF S = {} THEN 0
  ELSE LET x == CHOOSE y \in S : TRUE IN f[x] + SumOver(f, S \ {x})

\* user_votes rows (with multiplicity) matching poll_id / user_id
VoteRows(p) == {r \in BagToSet(userVotes) : r.poll_id = p}
VoteCount(p) == SumOver(userVotes, VoteRows(p))
VoteRowsOf(p, uid) == {r \in BagToSet(userVotes) : r.poll_id = p /\ r.user_id = uid}
VoteCountOf(p, uid) == SumOver(userVotes, VoteRowsOf(p, uid))

OptionsOf(p) == {o \in DOMAIN pollOptions : pollOptions[o].poll_id = p}
PersistedSum(p) == SumOver([o \in OptionsOf(p) |-> pollOptions[o].votes], OptionsOf(p))

\* The uniqueness constraint (user_votes.poll_id, user_votes.user_id).
ViolatesVoteUnique(row) == VoteCountOf(row.poll_id, row.user_id) > 0

\* .from('user_votes').insert(row)
InsertVoteRow(row) == userVotes (+) SetToBag({row})

\* .select('option_id').eq('poll_id', p).eq('user_id', uid).maybeSingle():
\* the row's option_id, null without a row (and null, with an error the
\* caller drops, when several rows match).
SelectVote(p, uid) ==
  IF VoteCountOf(p, uid) = 1
  THEN (CHOOSE r \in VoteRowsOf(p, uid) : TRUE).option_id
  ELSE None

\* ------------------------------------------------------------------ display
\* PollCard.totalVotes: pollData.reduce((sum, option) => sum + option.votes, 0)
TotalVotes(pd) == SumOver(pd, DOMAIN pd)

\* Mutant of Percentage: Math.floor in place of Math.round.
PercentageFloor(votes, total) ==
  IF total > 0 THEN (100 * votes) \div total ELSE 0

\* Math.round(x) is floor(x + 0.5)
Percentage(votes, total) ==
  IF total > 0 THEN (200 * votes + total) \div (2 * total) ELSE 0

Display(c) == [o \in DOMAIN pollData[c] |->
                 Percentage(pollData[c][o], TotalVotes(pollData[c]))]

IdleCall == [pc |-> "idle"]
Toast(c, title) == [tab |-> c, title |-> title]
NoCard == [id |-> None, authorId |-> None]

\* ---------------------------------------------------------------- sessions
\* The effect of PollCard on [poll.id, user]: checkVoteStatus returns at once
\* without a user, and otherwise sends the user_votes lookup.
CheckVoteStatus(c, p, uid) ==
  IF uid = None \/ p = None
  THEN chk[c]
  ELSE chk[c] \cup {[poll_id |-> p, user_id |-> uid]}

\* onAuthStateChange SIGNED_IN (and fetchInitialSession): setUser(profile).
\* A new user object re-runs the card's effect.
AuthSignedIn(c, uid) ==
  /\ Cardinality(chk[c]) < MaxLookups
  /\ user' = [user EXCEPT ![c] = uid]
  /\ chk' = [chk EXCEPT ![c] = CheckVoteStatus(c, cardPoll[c].id, uid)]
  /\ UNCHANGED <<storeVars, cardVars, vote, delVars, com, toast, shown, acctVars, pageVars>>

\* onAuthStateChange SIGNED_OUT (and logout): setUser(null).
AuthSignedOut(c) ==
  /\ user[c] # None
  /\ user' = [user EXCEPT ![c] = None]
  /\ chk' = [chk EXCEPT ![c] = CheckVoteStatus(c, cardPoll[c].id, None)]
  /\ UNCHANGED <<storeVars, cardVars, vote, delVars, com, toast, shown, acctVars, pageVars>>

\* ------------------------------------------------------------------ PollCard
\* The parent reads the poll and its poll_options rows and mounts the card:
\* pollData starts as poll.options, hasVoted false, selectedOption null, and
\* the effect runs once.
MountCard(c, p) ==
  /\ cardPoll[c] = NoCard
  /\ p \in CardPolls \cap DOMAIN polls
  /\ cardPoll' = [cardPoll EXCEPT ![c] = [id |-> p, authorId |-> polls[p].author_id]]
  /\ pollData' = [pollData EXCEPT ![c] = [o \in OptionsOf(p) |-> pollOptions[o].votes]]
  /\ hasVoted' = [hasVoted EXCEPT ![c] = FALSE]
  /\ selectedOption' = [selectedOption EXCEPT ![c] = None]
  /\ chk' = [chk EXCEPT ![c] = CheckVoteStatus(c, p, user[c])]
  /\ UNCHANGED <<storeVars, user, vote, delVars, com, toast, shown, acctVars, pageVars>>

\* checkVoteStatus after its await: if (data) { setSelectedOption(...);
\* setHasVoted(true) }, and nothing otherwise.
ApplyVoteStatus(c, data) ==
  IF data # None
  THEN /\ selectedOption' = [selectedOption EXCEPT ![c] = data]
       /\ hasVoted' = [hasVoted EXCEPT ![c] = TRUE]
  ELSE UNCHANGED <<selectedOption, hasVoted>>

\* The store answers a checkVoteStatus lookup and the call resumes.
CheckVoteStatusReturn(c, r) ==
  /\ r \in chk[c]
  /\ chk' = [chk EXCEPT ![c] = @ \ {r}]
  /\ ApplyVoteStatus(c, SelectVote(r.poll_id, r.user_id))
  /\ UNCHANGED <<storeVars, user, cardPoll, pollData, vote, delVars, com, toast, shown, acctVars, pageVars>>

\* The lookup fails.  The call reads only `data` of the answer and drops
\* `error`, so it resumes as if there were no row.
CheckVoteStatusFailed(c, r) ==
  /\ r \in chk[c]
  /\ chk' = [chk EXCEPT ![c] = @ \ {r}]
  /\ ApplyVoteStatus(c, None)
  /\ UNCHANGED <<storeVars, user, cardPoll, pollData, vote, delVars, com, toast, shown, acctVars, pageVars>>

\* handleVote(optionId) up to its await: the two guards, then the insert
\* request with the ids the closure holds.
HandleVote(c, o) ==
  /\ cardPoll[c] # NoCard
  /\ o \in DOMAIN pollData[c]
  /\ Cardinality(vote[c]) < MaxVoteCalls
  /\ IF user[c] = None
     THEN /\ toast' = Toast(c, "AuthRequired")
          /\ UNCHANGED vote
     ELSE IF hasVoted[c]
     THEN UNCHANGED <<vote, toast>>
     ELSE /\ vote' = [vote EXCEPT ![c] =
                 @ \cup {[poll_id |-> cardPoll[c].id, option_id |-> o,
                          user_id |-> user[c]]}]
          /\ UNCHANGED toast
  /\ UNCHANGED <<storeVars, user, cardVars, chk, delVars, com, shown, acctVars, pageVars>>

\* handleVote after its await, the insert having succeeded.
VoteSucceeded(c, row) ==
  /\ selectedOption' = [selectedOption EXCEPT ![c] = row.option_id]
  /\ hasVoted' = [hasVoted EXCEPT ![c] = TRUE]
  /\ pollData' = [pollData EXCEPT ![c] =
        [o \in DOMAIN @ |-> IF o = row.option_id THEN @[o] + 1 ELSE @[o]]]
  /\ toast' = Toast(c, "VoteRecorded")

\* Mutant of VoteFailed: `if (error) throw error` is missing, so a failed
\* insert is treated as recorded.
VoteErrorIgnored(c, row) == VoteSucceeded(c, row)

\* handleVote after its await, the insert having failed: the catch block.
VoteFailed(c, row) ==
  /\ toast' = Toast(c, "VoteFailed")
  /\ UNCHANGED <<selectedOption, hasVoted, pollData>>

\* Mutant of HandleVoteReturn: the counter of the chosen option is
\* incremented first and the vote inserted second, with no compensation when
\* the insert fails.
HandleVoteReturnCountFirst(c, row) ==
  /\ row \in vote[c]
  /\ vote' = [vote EXCEPT ![c] = @ \ {row}]
  /\ pollOptions' = IF row.option_id \in DOMAIN pollOptions
                    THEN [pollOptions EXCEPT ![row.option_id].votes = @ + 1]
                    ELSE pollOptions
  /\ \/ /\ ~ViolatesVoteUnique(row)
        /\ userVotes' = InsertVoteRow(row)
        /\ VoteSucceeded(c, row)
     \/ /\ UNCHANGED userVotes
        /\ VoteFailed(c, row)
  /\ UNCHANGED <<polls, comments, commentSeq, user, cardPoll, chk, delVars, com, shown, acctVars, pageVars>>

\* The store executes the insert into user_votes and handleVote resumes.
\* Nothing but the insert is sent: no request updates poll_options.votes.
HandleVoteReturn(c, row) ==
  /\ row \in vote[c]
  /\ vote' = [vote EXCEPT ![c] = @ \ {row}]
  /\ \/ /\ ~ViolatesVoteUnique(row)
        /\ userVotes' = InsertVoteRow(row)
        /\ VoteSucceeded(c, row)
     \/ /\ UNCHANGED userVotes
        /\ VoteFailed(c, row)
  /\ UNCHANGED <<polls, pollOptions, comments, commentSeq, user, cardPoll, chk,
                 delVars, com, shown, acctVars, pageVars>>

\* --------------------------------------------------------- poll deletion
\* Mutant of DeleteOrder: the poll row is deleted before its option rows.
DeleteOrderPollBeforeOptions == <<"comments", "user_votes", "polls", "poll_options">>

\* The tables handleDelete sends its delete requests to, in the order of the
\* code: comments, user_votes, poll_options, each filtered by poll_id, and
\* then the poll row by id.
DeleteOrder == <<"comments", "user_votes", "poll_options", "polls">>

\* Mutant of DeleteComments: the filter on poll_id is missing.
DeleteCommentsOfAllPolls(p) == {}

\* .from(table).delete().eq('poll_id', p)  /  .from('polls').delete().eq('id', p)
DeleteComments(p) == {r \in comments : r.poll_id # p}
DeleteVotes(p) ==
  LET keep == {r \in BagToSet(userVotes) : r.poll_id # p}
  IN  [r \in keep |-> userVotes[r]]
DeleteOptions(p) == Restrict(pollOptions, DOMAIN pollOptions \ OptionsOf(p))
DeletePoll(p) == Restrict(polls, DOMAIN polls \ {p})

StoreDelete(table, p) ==
  /\ comments' = IF table = "comments" THEN DeleteComments(p) ELSE comments
  /\ userVotes' = IF table = "user_votes" THEN DeleteVotes(p) ELSE userVotes
  /\ pollOptions' = IF table = "poll_options" THEN DeleteOptions(p) ELSE pollOptions
  /\ polls' = IF table = "polls" THEN DeletePoll(p) ELSE polls
  /\ UNCHANGED commentSeq

\* Mutant of MayDelete: only the session is checked, not the author.
MayDeleteAnySignedIn(c) == user[c] # None

\* if (!user || user.id !== poll.authorId)
MayDelete(c) == user[c] # None /\ user[c] = cardPoll[c].authorId

\* handleDelete up to its first await.  The Delete button is disabled while
\* isDeleting.
HandleDelete(c) ==
  /\ cardPoll[c] # NoCard
  /\ ~isDeleting[c]
  /\ IF ~MayDelete(c)
     THEN /\ toast' = Toast(c, "Unauthorized")
          /\ UNCHANGED delVars
     ELSE /\ isDeleting' = [isDeleting EXCEPT ![c] = TRUE]
          /\ del' = [del EXCEPT ![c] = [pc |-> 1, poll_id |-> cardPoll[c].id]]
          /\ delLog' = [delLog EXCEPT ![c] = <<DeleteOrder[1]>>]
          /\ UNCHANGED toast
  /\ UNCHANGED <<storeVars, user, cardVars, chk, vote, com, shown, acctVars, pageVars>>

\* onDelete() of the card, Profile.handlePollDeleted: the poll is filtered
\* out of the lists of the page, which unmounts its card.
OnDelete(c) == [cardPoll EXCEPT ![c] = NoCard]

\* Mutant of FinishDelete: the finally block is missing.
FinishDeleteNoFinally(c, outcome) ==
  /\ toast' = Toast(c, outcome)
  /\ cardPoll' = IF outcome = "PollDeleted" THEN OnDelete(c) ELSE cardPoll
  /\ del' = [del EXCEPT ![c] = IdleCall]
  /\ delLog' = [delLog EXCEPT ![c] = <<>>]
  /\ UNCHANGED <<isDeleting, showDeleteConfirm>>

\* The end of handleDelete: the success toast and onDelete(), or the catch
\* block; then the finally block.
FinishDelete(c, outcome) ==
  /\ toast' = Toast(c, outcome)
  /\ cardPoll' = IF outcome = "PollDeleted" THEN OnDelete(c) ELSE cardPoll
  /\ isDeleting' = [isDeleting EXCEPT ![c] = FALSE]
  /\ showDeleteConfirm' = [showDeleteConfirm EXCEPT ![c] = FALSE]
  /\ del' = [del EXCEPT ![c] = IdleCall]
  /\ delLog' = [delLog EXCEPT ![c] = <<>>]

\* Mutant of HandleDeleteReturn: the errors of the delete requests are not
\* looked at, and the handler goes on to its next step after a failed one.
HandleDeleteReturnIgnoreErrors(c) ==
  /\ del[c] # IdleCall
  /\ LET step == del[c].pc
         p == del[c].poll_id
     IN /\ \/ StoreDelete(DeleteOrder[step], p)
           \/ UNCHANGED storeVars
        /\ IF step < Len(DeleteOrder)
           THEN /\ del' = [del EXCEPT ![c].pc = step + 1]
                /\ delLog' = [delLog EXCEPT ![c] = Append(@, DeleteOrder[step + 1])]
                /\ UNCHANGED <<isDeleting, showDeleteConfirm, toast, cardPoll>>
           ELSE FinishDelete(c, "PollDeleted")
  /\ UNCHANGED <<user, hasVoted, selectedOption, pollData, chk, vote, com, shown, acctVars,
                 restVars, isDeletingAccount, showDeleteAccountDialog>>

\* Mutant of HandleDeleteReturn: a delete request that matches no row is
\* answered with an error.
HandleDeleteReturnStrict(c) ==
  /\ del[c] # IdleCall
  /\ LET step == del[c].pc
         p == del[c].poll_id
         matched == CASE step = 1 -> {r \in comments : r.poll_id = p}
                      [] step = 2 -> VoteRows(p)
                      [] step = 3 -> OptionsOf(p)
                      [] step = 4 -> {p} \cap DOMAIN polls
     IN \/ /\ matched # {}
           /\ StoreDelete(DeleteOrder[step], p)
           /\ IF step < Len(DeleteOrder)
              THEN /\ del' = [del EXCEPT ![c].pc = step + 1]
                   /\ delLog' = [delLog EXCEPT ![c] = Append(@, DeleteOrder[step + 1])]
                   /\ UNCHANGED <<isDeleting, showDeleteConfirm, toast, cardPoll>>
              ELSE FinishDelete(c, "PollDeleted")
        \/ /\ UNCHANGED storeVars
           /\ FinishDelete(c, "DeleteFailed")
  /\ UNCHANGED <<user, hasVoted, selectedOption, pollData, chk, vote, com, shown, acctVars,
                 restVars, isDeletingAccount, showDeleteAccountDialog>>

\* The store executes the delete request in flight and handleDelete resumes:
\* on an error it throws, otherwise it sends the next delete or finishes.
HandleDeleteReturn(c) ==
  /\ del[c] # IdleCall
  /\ LET step == del[c].pc
         p == del[c].poll_id
     IN \/ /\ StoreDelete(DeleteOrder[step], p)
           /\ IF step < Len(DeleteOrder)
              THEN /\ del' = [del EXCEPT ![c].pc = step + 1]
                   /\ delLog' = [delLog EXCEPT ![c] = Append(@, DeleteOrder[step + 1])]
                   /\ UNCHANGED <<isDeleting, showDeleteConfirm, toast, cardPoll>>
              ELSE FinishDelete(c, "PollDeleted")
        \/ /\ UNCHANGED storeVars
           /\ FinishDelete(c, "DeleteFailed")
  /\ UNCHANGED <<user, hasVoted, selectedOption, pollData, chk, vote, com, shown, acctVars,
                 restVars, isDeletingAccount, showDeleteAccountDialog>>

\* The button of the card's menu, shown to the author: the confirmation is
\* opened or closed (setShowDeleteConfirm(!showDeleteConfirm)).
ToggleDeleteConfirm(c) ==
  /\ cardPoll[c] # NoCard
  /\ MayDelete(c)
  /\ showDeleteConfirm' = [showDeleteConfirm EXCEPT ![c] = ~@]
  /\ UNCHANGED <<storeVars, user, cardVars, chk, vote, delVars, com, toast, shown,
                 acctVars, restVars, isDeletingAccount, showDeleteAccountDialog>>

\* The page that shows the card goes away: the card is unmounted and its
\* state is dropped.  A handleDelete call in flight is not part of that state.
UnmountCard(c) ==
  /\ cardPoll[c] # NoCard
  /\ cardPoll' = [cardPoll EXCEPT ![c] = NoCard]
  /\ isDeleting' = [isDeleting EXCEPT ![c] = FALSE]
  /\ showDeleteConfirm' = [showDeleteConfirm EXCEPT ![c] = FALSE]
  /\ UNCHANGED <<storeVars, user, hasVoted, selectedOption, pollData, chk, vote, del,
                 delLog, com, toast, shown, acctVars, restVars, isDeletingAccount,
                 showDeleteAccountDialog>>

\* ------------------------------------------------------------ CommentSection
\* handleSubmitComment up to its await (the card shows the CommentSection of
\* its poll): the guards, then the insert request.  The form's button is
\* disabled while isSubmitting.
\* Mutant of CommentDataFor: the content id is written to both columns.
CommentDataBoth(contentType, contentId, uid) ==
  [poll_id |-> contentId, post_id |-> contentId, author_id |-> uid]

\* commentData of a CommentSection with the props contentType and contentId:
\* { author_id, [contentType === 'post' ? 'post_id' : 'poll_id']: contentId };
\* the column that is not named is stored as null.
CommentDataFor(contentType, contentId, uid) ==
  [poll_id |-> IF contentType = "post" THEN None ELSE contentId,
   post_id |-> IF contentType = "post" THEN contentId ELSE None,
   author_id |-> uid]

CommentData(c) == CommentDataFor("poll", cardPoll[c].id, user[c])

\* The comments of a post or poll as a select ordered by created_at returns
\* them: the ids, in the order of creation.
RECURSIVE SortedSeq(_)
SortedSeq(S) ==
  IF S = {} THEN <<>>
  ELSE LET m == CHOOSE x \in S : \A y \in S : x <= y
       IN  <<m>> \o SortedSeq(S \ {m})

InScope(row, contentType, contentId) ==
  IF contentType = "post" THEN row.post_id = contentId ELSE row.poll_id = contentId

StoreList(contentType, contentId) ==
  SortedSeq({r.id : r \in {x \in comments : InScope(x, contentType, contentId)}})

\* The section of tab c that is followed is the one with these props.
Tracks(c, contentType, contentId) ==
  /\ section[c].mounted
  /\ section[c].contentType = contentType
  /\ section[c].contentId = contentId

\* What a handler keeps of the render it was called in: the comments shown
\* and the component (mount 0: a section that is not followed).
ClosureList(c, contentType, contentId) ==
  IF Tracks(c, contentType, contentId) THEN commentList[c] ELSE <<>>
ClosureMount(c, contentType, contentId) ==
  IF Tracks(c, contentType, contentId) THEN section[c].mount ELSE 0

\* setComments(list) called by a handler of the component numbered mount:
\* a component that is gone keeps no state.
SetComments(c, mount, list) ==
  IF section[c].mounted /\ section[c].mount = mount
  THEN [commentList EXCEPT ![c] = list]
  ELSE commentList

\* The store sends a change of this comment row to every channel whose
\* filter it matches.
Notify(row) ==
  [c \in Clients |->
     notif[c] + Cardinality({ch \in channels :
                   ch.tab = c /\ InScope(row, ch.contentType, ch.contentId)})]

\* The insert requests of comments that the store has not answered yet.
InsertsInFlight == Cardinality({d \in Clients : com[d] # IdleCall /\ com[d].pc = "sent"})

\* handleSubmitComment of the CommentSection of a post or of a poll outside
\* a card, up to its await.
HandleSubmitCommentOn(c, contentType, contentId) ==
  /\ com[c] = IdleCall
  /\ IF user[c] = None
     THEN /\ toast' = Toast(c, "AuthRequired")
          /\ UNCHANGED com
     ELSE IF contentId = None
     THEN /\ toast' = Toast(c, "ContentIdMissing")
          /\ UNCHANGED com
     ELSE /\ commentSeq + InsertsInFlight < MaxComments
          /\ com' = [com EXCEPT ![c] =
                       [pc |-> "sent", row |-> CommentDataFor(contentType, contentId, user[c]),
                        id |-> None,
                        comments |-> ClosureList(c, contentType, contentId),
                        mount |-> ClosureMount(c, contentType, contentId)]]
          /\ UNCHANGED toast
  /\ UNCHANGED <<storeVars, user, cardVars, chk, vote, delVars, shown, acctVars, pageVars>>

HandleSubmitComment(c) ==
  /\ cardPoll[c] # NoCard
  /\ com[c] = IdleCall
  /\ IF user[c] = None
     THEN /\ toast' = Toast(c, "AuthRequired")
          /\ UNCHANGED com
     ELSE /\ commentSeq + InsertsInFlight < MaxComments
          /\ com' = [com EXCEPT ![c] =
                       [pc |-> "sent", row |-> CommentData(c), id |-> None,
                        comments |-> ClosureList(c, "poll", cardPoll[c].id),
                        mount |-> ClosureMount(c, "poll", cardPoll[c].id)]]
          /\ UNCHANGED toast
  /\ UNCHANGED <<storeVars, user, cardVars, chk, vote, delVars, shown, acctVars, pageVars>>

\* .from('comments').insert(commentData): the store gives the row its id.
InsertedComment(row) ==
  [id |-> commentSeq + 1, poll_id |-> row.poll_id,
   post_id |-> row.post_id, author_id |-> row.author_id]
InsertComment(row) == comments \cup {InsertedComment(row)}

\* The store answers the request in flight and handleSubmitComment resumes:
\* after the insert it asks for the author's profile (whose error is not
\* looked at), after that it appends the new comment to the comments of the
\* render it was called in.
HandleSubmitCommentReturn(c) ==
  /\ com[c] # IdleCall
  /\ \/ /\ com[c].pc = "sent"
        /\ comments' = InsertComment(com[c].row)
        /\ commentSeq' = commentSeq + 1
        /\ notif' = Notify(InsertedComment(com[c].row))
        /\ com' = [com EXCEPT ![c].pc = "profile", ![c].id = commentSeq + 1]
        /\ UNCHANGED <<toast, commentList>>
     \/ /\ com[c].pc = "profile"
        /\ commentList' = SetComments(c, com[c].mount, Append(com[c].comments, com[c].id))
        /\ toast' = Toast(c, "CommentAdded")
        /\ com' = [com EXCEPT ![c] = IdleCall]
        /\ UNCHANGED <<comments, commentSeq, notif>>
     \/ /\ com[c].pc = "sent"
        /\ toast' = Toast(c, "CommentFailed")
        /\ com' = [com EXCEPT ![c] = IdleCall]
        /\ UNCHANGED <<comments, commentSeq, notif, commentList>>
  /\ UNCHANGED <<polls, pollOptions, userVotes, user, cardVars, chk, vote,
                 delVars, shown, acctVars, form, formVars, regVars, dialogVars, section,
                 fetchError, fetches, fetchSeq, channels, dcom>>

\* fetchComments up to its await: setFetchError(null) and the select of the
\* comments of the section's content, as the primed values of fetches,
\* fetchSeq and fetchError.  Nothing is sent for an empty contentId.
FetchCommentsFrom(c, sec, others) ==
  IF sec.contentId = None
  THEN /\ fetches' = [fetches EXCEPT ![c] = others]
       /\ UNCHANGED <<fetchSeq, fetchError>>
  ELSE /\ fetches' = [fetches EXCEPT ![c] = others \cup
                        {[n |-> fetchSeq[c] + 1, pc |-> "sent", data |-> <<>>,
                          contentType |-> sec.contentType, contentId |-> sec.contentId,
                          mount |-> sec.mount]}]
       /\ fetchSeq' = [fetchSeq EXCEPT ![c] = @ + 1]
       /\ fetchError' = [fetchError EXCEPT ![c] = FALSE]

\* The channel the effect of a section subscribes.
ChannelOf(c, sec) ==
  [tab |-> c, contentType |-> sec.contentType, contentId |-> sec.contentId,
   inst |-> sec.inst]

\* The effect that never removes its channel.
EffectWithoutCleanup(c, sec) ==
  /\ section' = [section EXCEPT ![c] = sec]
  /\ IF sec.contentId = None
     THEN UNCHANGED <<channels, notif>>
     ELSE /\ channels' = channels \cup {ChannelOf(c, sec)}
          /\ UNCHANGED notif
  /\ FetchCommentsFrom(c, sec, fetches[c])

\* The effect of the section of tab c, run for the props and user in sec:
\* the cleanup of the effect run before removes that run's channel; then,
\* unless contentId is empty, fetchComments is called and a channel with the
\* filter of the content is subscribed.
Effect(c, sec) ==
  /\ section' = [section EXCEPT ![c] = sec]
  /\ IF sec.contentId = None
     THEN /\ channels' = channels \ {ChannelOf(c, section[c])}
          /\ notif' = [notif EXCEPT ![c] = 0]
     ELSE /\ channels' = (channels \ {ChannelOf(c, section[c])}) \cup {ChannelOf(c, sec)}
          /\ notif' = [notif EXCEPT ![c] = 0]
  /\ FetchCommentsFrom(c, sec, fetches[c])

\* A CommentSection with these props is mounted in tab c: its state is the
\* initial one and its effect runs.
MountSection(c, contentType, contentId) ==
  /\ ~section[c].mounted
  /\ section[c].inst < MaxEffects
  /\ fetchSeq[c] < MaxFetches
  /\ Effect(c, [mounted |-> TRUE, contentType |-> contentType, contentId |-> contentId,
                user |-> user[c], mount |-> section[c].mount + 1,
                inst |-> section[c].inst + 1])
  /\ commentList' = [commentList EXCEPT ![c] = <<>>]
  /\ UNCHANGED <<storeVars, user, cardVars, chk, vote, delVars, com, toast, shown,
                 acctVars, form, formVars, regVars, dialogVars, dcom>>

\* The section is rendered with other props, or after AuthContext.user has
\* changed: the effect runs again.
RunEffect(c, contentType, contentId) ==
  /\ section[c].mounted
  /\ section[c].inst < MaxEffects
  /\ fetchSeq[c] < MaxFetches
  /\ <<contentType, contentId, user[c]>> #
       <<section[c].contentType, section[c].contentId, section[c].user>>
  /\ Effect(c, [section[c] EXCEPT !.contentType = contentType, !.contentId = contentId,
                                  !.user = user[c], !.inst = @ + 1])
  /\ UNCHANGED <<storeVars, user, cardVars, chk, vote, delVars, com, toast, shown,
                 acctVars, form, formVars, regVars, dialogVars, commentList, dcom>>

\* logout() after its sign-out request succeeded: supabase.removeAllChannels()
\* removes every channel of the tab's client.
RemoveAllChannels(c) ==
  /\ user[c] = None
  /\ \E ch \in channels : ch.tab = c
  /\ channels' = {ch \in channels : ch.tab # c}
  /\ notif' = [notif EXCEPT ![c] = 0]
  /\ UNCHANGED <<storeVars, user, cardVars, chk, vote, delVars, com, toast, shown,
                 acctVars, form, formVars, regVars, dialogVars, section, commentList,
                 fetchError, fetches, fetchSeq, dcom>>

\* The section is unmounted: the cleanup of its effect removes the channel.
UnmountSection(c) ==
  /\ section[c].mounted
  /\ section' = [section EXCEPT ![c].mounted = FALSE]
  /\ channels' = channels \ {ChannelOf(c, section[c])}
  /\ notif' = [notif EXCEPT ![c] = 0]
  /\ UNCHANGED <<storeVars, user, cardVars, chk, vote, delVars, com, toast, shown,
                 acctVars, form, formVars, regVars, dialogVars, commentList, fetchError, fetches,
                 fetchSeq, dcom>>

\* A change notification reaches the channel of tab c: fetchComments.
DeliverChange(c) ==
  /\ notif[c] > 0
  /\ section[c].mounted
  /\ fetchSeq[c] < MaxFetches
  /\ notif' = [notif EXCEPT ![c] = @ - 1]
  /\ FetchCommentsFrom(c, section[c], fetches[c])
  /\ UNCHANGED <<storeVars, user, cardVars, chk, vote, delVars, com, toast, shown,
                 acctVars, form, formVars, regVars, dialogVars, section, commentList, channels, dcom>>

\* The Retry button shown with fetchError: fetchComments.
RetryFetch(c) ==
  /\ section[c].mounted
  /\ fetchError[c]
  /\ fetchSeq[c] < MaxFetches
  /\ FetchCommentsFrom(c, section[c], fetches[c])
  /\ UNCHANGED <<storeVars, user, cardVars, chk, vote, delVars, com, toast, shown,
                 acctVars, form, formVars, regVars, dialogVars, section, commentList, channels,
                 notif, dcom>>

\* The store executes the select of a fetchComments call, or fails it; the
\* response is then on its way.
StoreAnswersFetch(c, f) ==
  /\ f \in fetches[c]
  /\ f.pc = "sent"
  /\ \E answer \in {"data", "error"} :
       fetches' = [fetches EXCEPT ![c] = (@ \ {f}) \cup
                     {[f EXCEPT !.pc = answer,
                                !.data = IF answer = "data"
                                         THEN StoreList(f.contentType, f.contentId)
                                         ELSE <<>>]}]
  /\ UNCHANGED <<storeVars, user, cardVars, chk, vote, delVars, com, toast, shown,
                 acctVars, form, formVars, regVars, dialogVars, section, commentList, fetchError,
                 fetchSeq, channels, notif, dcom>>

\* The response of a fetchComments call arrives and the call resumes:
\* setComments(data), or setFetchError and the toast.
FetchCommentsReturn(c, f) ==
  /\ f \in fetches[c]
  /\ f.pc # "sent"
  /\ fetches' = [fetches EXCEPT ![c] = @ \ {f}]
  /\ IF f.pc = "data"
     THEN /\ commentList' = SetComments(c, f.mount, f.data)
          /\ UNCHANGED <<fetchError, toast>>
     ELSE /\ fetchError' = IF section[c].mounted /\ section[c].mount = f.mount
                           THEN [fetchError EXCEPT ![c] = TRUE] ELSE fetchError
          /\ toast' = Toast(c, "LoadFailed")
          /\ UNCHANGED commentList
  /\ UNCHANGED <<storeVars, user, cardVars, chk, vote, delVars, com, shown,
                 acctVars, form, formVars, regVars, dialogVars, section, fetchSeq, channels,
                 notif, dcom>>

\* handleDeleteComment without the filter on the author.
HandleDeleteCommentAnyAuthor(c, commentId) ==
  /\ dcom[c] = IdleCall
  /\ user[c] # None
  /\ dcom' = [dcom EXCEPT ![c] =
                [pc |-> "sent", id |-> commentId, author_id |-> None,
                 comments |-> commentList[c], mount |-> section[c].mount]]
  /\ UNCHANGED <<storeVars, user, cardVars, chk, vote, delVars, com, toast, shown,
                 acctVars, form, formVars, regVars, dialogVars, section, commentList, fetchError,
                 fetches, fetchSeq, channels, notif>>

\* handleDeleteComment(commentId) of the section of tab c up to its await:
\* nothing without a user, else the delete of the rows with that id and the
\* user as author.
HandleDeleteComment(c, commentId) ==
  /\ dcom[c] = IdleCall
  /\ user[c] # None
  /\ dcom' = [dcom EXCEPT ![c] =
                [pc |-> "sent", id |-> commentId, author_id |-> user[c],
                 comments |-> commentList[c], mount |-> section[c].mount]]
  /\ UNCHANGED <<storeVars, user, cardVars, chk, vote, delVars, com, toast, shown,
                 acctVars, form, formVars, regVars, dialogVars, section, commentList, fetchError,
                 fetches, fetchSeq, channels, notif>>

\* .delete().eq('id', commentId).eq('author_id', user.id): the rows removed
\* (author_id None: no filter on the author).
DeletedComments(d) ==
  {r \in comments : r.id = d.id /\ (d.author_id = None \/ r.author_id = d.author_id)}

\* comments.filter(comment => comment.id !== commentId)
FilterOut(list, id) == SelectSeq(list, LAMBDA x : x # id)

\* The store executes the delete, which matches one row or none, and
\* handleDeleteComment resumes: the comment is taken out of the comments of
\* the render it was called in; or the request fails.
HandleDeleteCommentReturn(c) ==
  /\ dcom[c] # IdleCall
  /\ dcom' = [dcom EXCEPT ![c] = IdleCall]
  /\ \/ /\ comments' = comments \ DeletedComments(dcom[c])
        /\ notif' = IF DeletedComments(dcom[c]) = {} THEN notif
                    ELSE Notify(CHOOSE r \in DeletedComments(dcom[c]) : TRUE)
        /\ commentList' = SetComments(c, dcom[c].mount, FilterOut(dcom[c].comments, dcom[c].id))
        /\ toast' = Toast(c, "CommentDeleted")
     \/ /\ toast' = Toast(c, "CommentDeleteFailed")
        /\ UNCHANGED <<comments, notif, commentList>>
  /\ UNCHANGED <<polls, pollOptions, userVotes, commentSeq, user, cardVars, chk, vote,
                 delVars, com, shown, acctVars, form, formVars, regVars, dialogVars, section,
                 fetchError, fetches, fetchSeq, channels>>

\* ------------------------------------------------------------ create forms
\* The ids the store can give to a new post, a new poll and its options.
FreshPosts == {"q3"}
FreshPolls == {"p3"}
FreshOptions == <<"n1", "n2", "n3", "n4", "n5">>

\* aiFeedback of a form: empty ('' or undefined), or the text getFeedback
\* has stored.
Feedbacks == {None, "feedback"}

\* The texts typed into a form, and String.prototype.trim on them.
ContentTexts == {"", " ", "q"}
OptionTexts == {"", "x", " y"}
Trim(t) == CASE t = " " -> "" [] t = " y" -> "y" [] OTHER -> t

\* useState(['', '']) of CreatePollForm, and the limits of addOption and
\* removeOption.
InitialOptions == <<"", "">>
MaxOptions == 5
MinOptions == 2

\* setContent / setQuestion: the user types into the text area.
SetContent(c, value) ==
  /\ content' = [content EXCEPT ![c] = value]
  /\ UNCHANGED <<storeVars, user, cardVars, chk, vote, delVars, com, toast, shown, regVars, dialogVars, sectionVars,
                 acctVars, form, options, aiFeedback, fb>>

\* The routes of the two create forms, and the user opening one of them from
\* the feed: the form is mounted with its initial state.
FormRoute(kind) == IF kind = "post" THEN "/create-post" ELSE "/create-poll"

OpenForm(c, kind) ==
  /\ route[c] = "/"
  /\ route' = [route EXCEPT ![c] = FormRoute(kind)]
  /\ content' = [content EXCEPT ![c] = ""]
  /\ options' = [options EXCEPT ![c] = InitialOptions]
  /\ aiFeedback' = [aiFeedback EXCEPT ![c] = None]
  /\ fb' = IF fb[c] = IdleCall THEN fb ELSE [fb EXCEPT ![c].mounted = FALSE]
  /\ UNCHANGED <<storeVars, user, cardVars, chk, vote, delVars, com, toast, shown, regVars, dialogVars, sectionVars,
                 acctStore, acct, acctLog, deleteConfirmText, form>>

\* handleOptionChange(index, value).
HandleOptionChange(c, index, value) ==
  /\ index \in DOMAIN options[c]
  /\ options' = [options EXCEPT ![c][index] = value]
  /\ UNCHANGED <<storeVars, user, cardVars, chk, vote, delVars, com, toast, shown, regVars, dialogVars, sectionVars,
                 acctVars, form, content, aiFeedback, fb>>

\* addOption without its limit.
AddOptionUnlimited(c) ==
  /\ Len(options[c]) < MaxOptions + 1
  /\ options' = [options EXCEPT ![c] = Append(@, "")]
  /\ UNCHANGED <<storeVars, user, cardVars, chk, vote, delVars, com, toast, shown, regVars, dialogVars, sectionVars,
                 acctVars, form, content, aiFeedback, fb>>

\* addOption: a new empty field, up to five of them.
AddOption(c) ==
  /\ IF Len(options[c]) < MaxOptions
     THEN /\ options' = [options EXCEPT ![c] = Append(@, "")]
          /\ UNCHANGED toast
     ELSE /\ toast' = Toast(c, "MaxOptionsReached")
          /\ UNCHANGED options
  /\ UNCHANGED <<storeVars, user, cardVars, chk, vote, delVars, com, shown, regVars, dialogVars, sectionVars,
                 acctVars, form, content, aiFeedback, fb>>

\* options.filter((_, i) => i !== index)
RemoveAt(s, index) ==
  [k \in 1..(Len(s) - 1) |-> IF k < index THEN s[k] ELSE s[k + 1]]

\* removeOption(index): the field is removed unless only two are left.
RemoveOption(c, index) ==
  /\ index \in DOMAIN options[c]
  /\ IF Len(options[c]) <= MinOptions
     THEN /\ toast' = Toast(c, "CannotRemoveOption")
          /\ UNCHANGED options
     ELSE /\ options' = [options EXCEPT ![c] = RemoveAt(@, index)]
          /\ UNCHANGED toast
  /\ UNCHANGED <<storeVars, user, cardVars, chk, vote, delVars, com, shown, regVars, dialogVars, sectionVars,
                 acctVars, form, content, aiFeedback, fb>>

\* getFeedback up to its await: the guard on the text, then the request to
\* the generate-content-feedback function.  The button is disabled while
\* isGettingFeedback; one request per tab is followed.
GetFeedback(c, kind) ==
  /\ fb[c] = IdleCall
  /\ IF Trim(content[c]) = ""
     THEN /\ toast' = Toast(c, "CannotGetFeedback")
          /\ UNCHANGED fb
     ELSE /\ fb' = [fb EXCEPT ![c] = [pc |-> "fetch", kind |-> kind, mounted |-> TRUE]]
          /\ UNCHANGED toast
  /\ UNCHANGED <<storeVars, user, cardVars, chk, vote, delVars, com, shown, regVars, dialogVars, sectionVars,
                 acctVars, form, content, options, aiFeedback>>

\* What the request to the function can come to: no response at all, a
\* status outside 2xx whose body is not JSON (a gateway), the function's own
\* 400 or 500 with { error }, a 2xx body without a feedback field, and the
\* function's { feedback }.
Responses == {"network", "statusNoJson", "statusError", "noFeedback", "feedback"}
FailedResponses == Responses \ {"feedback"}

\* Whether getFeedback throws on the response.  CreatePostForm only fails in
\* fetch or in response.json(); CreatePollForm also throws on !response.ok
\* and on data.error.
FeedbackThrows(kind, response) ==
  IF kind = "post"
  THEN response \in {"network", "statusNoJson"}
  ELSE response \in {"network", "statusNoJson", "statusError"}

\* data.feedback || data.error: the error text of the function is kept as
\* if it were feedback.
DataFeedbackOrError(response) ==
  IF response \in {"feedback", "statusError"} THEN "feedback" ELSE None

\* data.feedback of a response getFeedback did not throw on.
DataFeedback(response) == IF response = "feedback" THEN "feedback" ELSE None

\* The response arrives and getFeedback resumes: setAiFeedback(data.feedback)
\* and, in the poll form, the toast; or the catch block.  A form that was
\* unmounted meanwhile keeps no state.
GetFeedbackReturn(c, response) ==
  /\ fb[c] # IdleCall
  /\ fb' = [fb EXCEPT ![c] = IdleCall]
  /\ IF FeedbackThrows(fb[c].kind, response)
     THEN /\ toast' = Toast(c, "FeedbackFailed")
          /\ UNCHANGED aiFeedback
     ELSE /\ aiFeedback' = IF fb[c].mounted
                           THEN [aiFeedback EXCEPT ![c] = DataFeedback(response)]
                           ELSE aiFeedback
          /\ toast' = IF fb[c].kind = "poll"
                      THEN Toast(c, "FeedbackGenerated") ELSE toast
  /\ UNCHANGED <<storeVars, user, cardVars, chk, vote, delVars, com, shown, regVars, dialogVars, sectionVars,
                 acctVars, form, content, options>>

\* The comment a form inserts for its aiFeedback: { content, author_id,
\* post_id | poll_id, is_anonymous: true }.
FeedbackComment(kind, id, uid) ==
  IF kind = "post"
  THEN [poll_id |-> None, post_id |-> id, author_id |-> uid]
  ELSE [poll_id |-> id, post_id |-> None, author_id |-> uid]

\* options.some(option => !option.trim())
SomeOptionBlank(opts) == \E i \in DOMAIN opts : Trim(opts[i]) = ""

\* handleSubmit of CreatePostForm (kind "post") and of CreatePollForm (kind
\* "poll") up to its first await: the guards on the user, on the text and on
\* the option fields, then the insert of the post or poll row.  The button is
\* disabled while isSubmitting.
HandleSubmit(c, kind) ==
  /\ form[c] = IdleCall
  /\ IF user[c] = None
     THEN /\ toast' = Toast(c, "AuthRequired")
          /\ UNCHANGED form
     ELSE IF Trim(content[c]) = ""
     THEN /\ toast' = Toast(c, "EmptyContent")
          /\ UNCHANGED form
     ELSE IF kind = "poll" /\ SomeOptionBlank(options[c])
     THEN /\ toast' = Toast(c, "EmptyOption")
          /\ UNCHANGED form
     ELSE /\ form' = [form EXCEPT ![c] =
                 [pc |-> "row", kind |-> kind, author_id |-> user[c],
                  feedback |-> aiFeedback[c], options |-> options[c], id |-> None]]
          /\ UNCHANGED toast
  /\ UNCHANGED <<storeVars, user, cardVars, chk, vote, delVars, com, shown, regVars, dialogVars, sectionVars, acctVars,
                 formVars>>

\* The end of handleSubmit: the success toast and navigate('/'), which
\* unmounts the form (the form mounted next starts from its initial state,
\* and a getFeedback still in flight has lost its form); or the catch block;
\* then the finally block.
FinishSubmit(c, outcome) ==
  /\ toast' = Toast(c, outcome)
  /\ form' = [form EXCEPT ![c] = IdleCall]
  /\ IF outcome \in {"PostCreated", "PollCreated"}
     THEN /\ route' = [route EXCEPT ![c] = "/"]
          /\ content' = [content EXCEPT ![c] = ""]
          /\ options' = [options EXCEPT ![c] = InitialOptions]
          /\ aiFeedback' = [aiFeedback EXCEPT ![c] = None]
          /\ fb' = IF fb[c] = IdleCall THEN fb
                   ELSE [fb EXCEPT ![c].mounted = FALSE]
     ELSE UNCHANGED <<route, formVars>>

FailedTitle(kind) == IF kind = "post" THEN "PostFailed" ELSE "PollFailed"

\* What handleSubmit does once the row and, if any, the feedback comment are
\* stored: the post form is done, the poll form sends the insert of the
\* option rows.
AfterComment(c, kind) ==
  IF kind = "post"
  THEN FinishSubmit(c, "PostCreated")
  ELSE /\ form' = [form EXCEPT ![c].pc = "options"]
       /\ UNCHANGED <<toast, route, formVars>>

\* optionsToInsert as stored: one row per field, in the order of the fields
\* (the store issues the ids in that order), each with the trimmed text and
\* votes 0.
OptionsToInsert(p, opts) ==
  [o \in {FreshOptions[i] : i \in DOMAIN opts} |->
     LET i == CHOOSE k \in DOMAIN opts : FreshOptions[k] = o
     IN  NewOptionRow(p, Trim(opts[i]))]

\* The store answers the request in flight and handleSubmit resumes; every
\* error is thrown to the catch block.
HandleSubmitReturn(c) ==
  /\ form[c] # IdleCall
  /\ LET f == form[c]
     IN  \/ /\ f.pc = "row"
            /\ \E id \in (IF f.kind = "post" THEN FreshPosts \ DOMAIN posts
                          ELSE FreshPolls \ DOMAIN polls) :
                 /\ posts' = IF f.kind = "post"
                             THEN [q \in DOMAIN posts \cup {id} |->
                                     IF q = id THEN [author_id |-> f.author_id] ELSE posts[q]]
                             ELSE posts
                 /\ polls' = IF f.kind = "poll"
                             THEN [q \in DOMAIN polls \cup {id} |->
                                     IF q = id THEN NewPollRow(f.author_id) ELSE polls[q]]
                             ELSE polls
                 /\ IF f.feedback # None
                    THEN /\ form' = [form EXCEPT ![c].pc = "comment", ![c].id = id]
                         /\ UNCHANGED <<toast, route, formVars>>
                    ELSE IF f.kind = "post"
                    THEN FinishSubmit(c, "PostCreated")
                    ELSE /\ form' = [form EXCEPT ![c].pc = "options", ![c].id = id]
                         /\ UNCHANGED <<toast, route, formVars>>
            /\ UNCHANGED <<pollOptions, comments, commentSeq>>
         \/ /\ f.pc = "comment"
            /\ comments' = InsertComment(FeedbackComment(f.kind, f.id, f.author_id))
            /\ commentSeq' = commentSeq + 1
            /\ AfterComment(c, f.kind)
            /\ UNCHANGED <<polls, pollOptions, posts>>
         \/ /\ f.pc = "options"
            /\ pollOptions' =
                 [o \in DOMAIN pollOptions \cup DOMAIN OptionsToInsert(f.id, f.options) |->
                    IF o \in DOMAIN pollOptions THEN pollOptions[o]
                    ELSE OptionsToInsert(f.id, f.options)[o]]
            /\ FinishSubmit(c, "PollCreated")
            /\ UNCHANGED <<polls, comments, commentSeq, posts>>
         \/ /\ FinishSubmit(c, FailedTitle(f.kind))
            /\ UNCHANGED <<polls, pollOptions, comments, commentSeq, posts>>
  /\ UNCHANGED <<userVotes, user, cardVars, chk, vote, delVars, com, shown, regVars, dialogVars, sectionVars,
                 postLikes, profiles, authUsers, acct, acctLog, deleteConfirmText>>

\* --------------------------------------------------------- account deletion
\* 'delete my account', as the sequence of its characters.
ConfirmPhrase ==
  <<"d", "e", "l", "e", "t", "e", " ", "m", "y", " ",
    "a", "c", "c", "o", "u", "n", "t">>

Uppers == <<"A", "B", "C", "D", "E", "F", "G", "H", "I", "J", "K", "L", "M",
            "N", "O", "P", "Q", "R", "S", "T", "U", "V", "W", "X", "Y", "Z">>
Lowers == <<"a", "b", "c", "d", "e", "f", "g", "h", "i", "j", "k", "l", "m",
            "n", "o", "p", "q", "r", "s", "t", "u", "v", "w", "x", "y", "z">>

\* String.prototype.toLowerCase, on the characters the texts are made of.
LowerChar(ch) ==
  IF \E i \in DOMAIN Uppers : Uppers[i] = ch
  THEN Lowers[CHOOSE i \in DOMAIN Uppers : Uppers[i] = ch]
  ELSE ch
ToLowerCase(text) == [i \in DOMAIN text |-> LowerChar(text[i])]

\* Mutant of ConfirmationMatches: the handler leaves the check to the
\* disabled button.
ConfirmationNotChecked(text) == TRUE

\* deleteConfirmText.toLowerCase() !== 'delete my account', negated
ConfirmationMatches(text) == ToLowerCase(text) = ConfirmPhrase

\* The texts typed into the confirmation field.
ConfirmTexts ==
  {<<>>, ConfirmPhrase,
   [i \in DOMAIN ConfirmPhrase |->
      IF \E j \in DOMAIN Lowers : Lowers[j] = ConfirmPhrase[i]
      THEN Uppers[CHOOSE j \in DOMAIN Lowers : Lowers[j] = ConfirmPhrase[i]]
      ELSE ConfirmPhrase[i]],
   [ConfirmPhrase EXCEPT ![1] = "D", ![8] = "M", ![11] = "A"],
   SubSeq(ConfirmPhrase, 1, Len(ConfirmPhrase) - 1),
   Append(ConfirmPhrase, " "),
   [ConfirmPhrase EXCEPT ![7] = "_"]}

\* onChange of the confirmation field: setDeleteConfirmText(e.target.value)
SetDeleteConfirmText(c, text) ==
  /\ acct[c] = IdleCall
  /\ text # deleteConfirmText[c]
  /\ deleteConfirmText' = [deleteConfirmText EXCEPT ![c] = text]
  /\ UNCHANGED <<storeVars, user, cardVars, chk, vote, delVars, com, toast, shown,
                 acctStore, acct, acctLog, route, pageVars>>

\* The requests of handleDeleteAccount and of the logout it calls, in the
\* order of the code.
AccountSteps ==
  <<"user_votes.user_id", "post_likes.user_id", "polls.select",
    "poll_options.poll_id", "user_votes.poll_id", "comments.poll_id",
    "polls.author_id", "posts.select", "comments.post_id",
    "post_likes.post_id", "posts.author_id", "comments.author_id",
    "profiles.id", "auth.deleteUser", "auth.signOut">>

StepOf(name) == CHOOSE k \in DOMAIN AccountSteps : AccountSteps[k] = name

\* The ids a select('id').eq('author_id', uid) returns.
PollsOf(uid) == {p \in DOMAIN polls : polls[p].author_id = uid}
PostsOf(uid) == {q \in DOMAIN posts : posts[q].author_id = uid}

\* The request after request k: the batched deletes after an enumeration are
\* skipped when the list of ids is empty, and when there is no list because
\* the enumeration failed (`ids` is then empty as well).
NextStep(k, ids) ==
  IF AccountSteps[k] = "polls.select" /\ ids = {} THEN StepOf("polls.author_id")
  ELSE IF AccountSteps[k] = "posts.select" /\ ids = {} THEN StepOf("posts.author_id")
  ELSE k + 1

\* What the store does with request k of the account deletion of uid, `ids`
\* being the ids the last enumeration returned: a delete filtered by
\* .eq(column, uid) or .in(column, ids); the enumerations and the sign-out
\* change no row.
AcctStore(k, uid, ids) ==
  LET name == AccountSteps[k]
  IN  /\ userVotes' =
           LET keep == {r \in BagToSet(userVotes) :
                          ~ \/ name = "user_votes.user_id" /\ r.user_id = uid
                            \/ name = "user_votes.poll_id" /\ r.poll_id \in ids}
           IN  [r \in keep |-> userVotes[r]]
      /\ postLikes' = {r \in postLikes :
                          ~ \/ name = "post_likes.user_id" /\ r.user_id = uid
                            \/ name = "post_likes.post_id" /\ r.post_id \in ids}
      /\ pollOptions' =
           IF name = "poll_options.poll_id"
           THEN Restrict(pollOptions, {o \in DOMAIN pollOptions : pollOptions[o].poll_id \notin ids})
           ELSE pollOptions
      /\ comments' = {r \in comments :
                          ~ \/ name = "comments.poll_id" /\ r.poll_id \in ids
                            \/ name = "comments.post_id" /\ r.post_id \in ids
                            \/ name = "comments.author_id" /\ r.author_id = uid}
      /\ polls' = IF name = "polls.author_id"
                  THEN Restrict(polls, DOMAIN polls \ PollsOf(uid)) ELSE polls
      /\ posts' = IF name = "posts.author_id"
                  THEN Restrict(posts, DOMAIN posts \ PostsOf(uid)) ELSE posts
      /\ profiles' = IF name = "profiles.id" THEN profiles \ {uid} ELSE profiles
      /\ authUsers' = IF name = "auth.deleteUser" THEN authUsers \ {uid} ELSE authUsers

\* The ids the handler holds after request k was answered.
IdsAfter(k, uid, ids, failed) ==
  CASE AccountSteps[k] = "polls.select" -> IF failed THEN {} ELSE PollsOf(uid)
    [] AccountSteps[k] = "posts.select" -> IF failed THEN {} ELSE PostsOf(uid)
    [] OTHER -> ids

\* handleDeleteAccount up to its first await: nothing without a user, the
\* check of the confirmation text, then the first delete request.  The
\* button is disabled while isDeletingAccount.
HandleDeleteAccount(c) ==
  /\ acct[c] = IdleCall
  /\ IF user[c] = None
     THEN UNCHANGED <<toast, acct, acctLog, isDeletingAccount>>
     ELSE IF ~ConfirmationMatches(deleteConfirmText[c])
     THEN /\ toast' = Toast(c, "ConfirmationMismatch")
          /\ UNCHANGED <<acct, acctLog, isDeletingAccount>>
     ELSE /\ isDeletingAccount' = [isDeletingAccount EXCEPT ![c] = TRUE]
          /\ acct' = [acct EXCEPT ![c] = [pc |-> 1, user_id |-> user[c], ids |-> {}]]
          /\ acctLog' = [acctLog EXCEPT ![c] = <<AccountSteps[1]>>]
          /\ UNCHANGED toast
  /\ UNCHANGED <<storeVars, user, cardVars, chk, vote, delVars, com, shown,
                 acctStore, deleteConfirmText, route, restVars, showDeleteConfirm,
                 showDeleteAccountDialog>>

\* The handler sends request `next`.
AcctSend(c, next, ids) ==
  /\ acct' = [acct EXCEPT ![c].pc = next, ![c].ids = ids]
  /\ acctLog' = [acctLog EXCEPT ![c] = Append(@, AccountSteps[next])]
  /\ UNCHANGED <<isDeletingAccount, showDeleteAccountDialog>>

\* The end of handleDeleteAccount: the success toast or the catch block, then
\* the finally block.
FinishDeleteAccount(c, outcome) ==
  /\ toast' = Toast(c, outcome)
  /\ acct' = [acct EXCEPT ![c] = IdleCall]
  /\ acctLog' = [acctLog EXCEPT ![c] = <<>>]
  /\ isDeletingAccount' = [isDeletingAccount EXCEPT ![c] = FALSE]
  /\ showDeleteAccountDialog' = [showDeleteAccountDialog EXCEPT ![c] = FALSE]

\* logout() up to its await: setUser(null), then the sign-out request.
Logout(c) ==
  /\ user' = [user EXCEPT ![c] = None]
  /\ AcctSend(c, StepOf("auth.signOut"), acct[c].ids)

\* Mutant of AuthDeleteFailed: `if (error) throw error` is missing after
\* auth.admin.deleteUser.
AuthDeleteErrorIgnored(c) ==
  /\ UNCHANGED authUsers
  /\ Logout(c)
  /\ UNCHANGED toast

\* auth.admin.deleteUser failed: the throw, the catch block, the finally block.
AuthDeleteFailed(c) ==
  /\ UNCHANGED <<authUsers, user>>
  /\ FinishDeleteAccount(c, "AccountDeleteFailed")

\* The store answers the request in flight and handleDeleteAccount resumes.
\* Only the answer of auth.admin.deleteUser is looked at: the other requests
\* are awaited and the handler goes on whatever they return.
HandleDeleteAccountReturn(c) ==
  /\ acct[c] # IdleCall
  /\ LET k == acct[c].pc
         uid == acct[c].user_id
         ids == acct[c].ids
     IN  CASE AccountSteps[k] = "auth.deleteUser" ->
                /\ UNCHANGED <<storeVars, posts, postLikes, profiles, route>>
                /\ \/ /\ authUsers' = authUsers \ {uid}
                      /\ Logout(c)
                      /\ UNCHANGED toast
                   \/ AuthDeleteFailed(c)
           [] AccountSteps[k] = "auth.signOut" ->
                /\ UNCHANGED <<storeVars, acctStore, user>>
                /\ \/ route' = [route EXCEPT ![c] = "/auth"]
                   \/ UNCHANGED route
                /\ FinishDeleteAccount(c, "AccountDeleted")
           [] OTHER ->
                /\ \E failed \in BOOLEAN :
                     /\ IF failed
                        THEN UNCHANGED <<polls, pollOptions, userVotes, comments, acctStore>>
                        ELSE AcctStore(k, uid, ids)
                     /\ LET got == IdsAfter(k, uid, ids, failed)
                        IN  AcctSend(c, NextStep(k, got), got)
                /\ UNCHANGED <<commentSeq, user, toast, route>>
  /\ UNCHANGED <<cardVars, chk, vote, delVars, com, shown, deleteConfirmText, restVars,
                 showDeleteConfirm>>

\* The dialog of the profile page is opened or closed (onOpenChange of the
\* Dialog, its trigger and its Cancel button).
SetShowDeleteAccountDialog(c, open) ==
  /\ route[c] = "/profile"
  /\ open # showDeleteAccountDialog[c]
  /\ showDeleteAccountDialog' = [showDeleteAccountDialog EXCEPT ![c] = open]
  /\ UNCHANGED <<storeVars, user, cardVars, chk, vote, delVars, com, toast, shown,
                 acctVars, restVars, showDeleteConfirm, isDeletingAccount>>

\* The tab leaves the profile page: Profile is unmounted and its state is
\* dropped.  A handleDeleteAccount call in flight is not part of that state.
LeaveProfile(c) ==
  /\ route[c] = "/profile"
  /\ route' = [route EXCEPT ![c] = "/"]
  /\ deleteConfirmText' = [deleteConfirmText EXCEPT ![c] = <<>>]
  /\ isDeletingAccount' = [isDeletingAccount EXCEPT ![c] = FALSE]
  /\ showDeleteAccountDialog' = [showDeleteAccountDialog EXCEPT ![c] = FALSE]
  /\ UNCHANGED <<storeVars, user, cardVars, chk, vote, delVars, com, toast, shown,
                 acctStore, acct, acctLog, restVars, showDeleteConfirm>>

\* ------------------------------------------------------------- registration
\* The usernames typed into the registration form, the name
\* generateRandomUsername draws (an adjective, a noun and a number), and the
\* email typed in each tab.
ProvidedNames == {<<"h", "7">>, <<"H", "7">>, <<"h", "_">>}
GeneratedNames == {<<"H", "7">>}
EmailOf(c) == IF c = "c1" THEN "n1@x" ELSE "n2@x"

\* username ILIKE pattern: case-insensitive, and '_' in the pattern matches
\* any one character (the texts hold no '%' and no backslash).
ILike(value, pattern) ==
  /\ Len(value) = Len(pattern)
  /\ \A i \in DOMAIN pattern :
       pattern[i] = "_" \/ LowerChar(value[i]) = LowerChar(pattern[i])

\* checkUsernameExists: .from('profiles').select('email').ilike('username',
\* username), the rows it matches.
UsernameMatches(username) == {u \in profiles : ILike(usernames[u], username)}

\* getUserByEmail: .ilike('email', email), the rows it matches (the emails
\* are lower-case and hold no wildcard).
EmailMatches(email) == {u \in profiles : emails[u] = email}

\* counter::text
Digits == <<"1", "2", "3">>

\* handle_new_user: the WHILE loop that appends the counter to the username
\* until no profile has exactly that username.
RECURSIVE UsernameAttempt(_, _)
UsernameAttempt(attempt, counter) ==
  IF \E u \in profiles : usernames[u] = attempt
  THEN UsernameAttempt(Append(attempt, Digits[counter + 1]), counter + 1)
  ELSE attempt

\* The uniqueness constraint on profiles.username, case-insensitive.
ViolatesUsernameUnique(username) ==
  \E u \in profiles : ToLowerCase(usernames[u]) = ToLowerCase(username)

\* register up to its first await: the username is the one provided or a
\* generated one; a provided username is looked up first, then the email.
Register(c, providedUsername) ==
  /\ reg[c] = IdleCall
  /\ \E username \in (IF providedUsername = <<>> THEN GeneratedNames
                      ELSE {providedUsername}) :
       reg' = [reg EXCEPT ![c] =
                 [pc |-> IF providedUsername = <<>> THEN "email" ELSE "username",
                  username |-> username, email |-> EmailOf(c)]]
  /\ UNCHANGED <<storeVars, user, cardVars, chk, vote, delVars, com, toast, shown,
                 acctVars, form, formVars, usernames, emails, dialogVars, sectionVars>>

\* The catch and finally blocks of register, or its success toast and
\* navigate('/').
FinishRegister(c, outcome) ==
  /\ reg' = [reg EXCEPT ![c] = IdleCall]
  /\ toast' = Toast(c, outcome)
  /\ route' = IF outcome = "RegistrationSuccessful"
              THEN [route EXCEPT ![c] = "/"] ELSE route

\* The store answers the request in flight and register resumes.
\* maybeSingle returns an error when several rows match.  signUp creates the
\* account, and the trigger handle_new_user inserts its profile in the same
\* transaction: a violated constraint fails the sign-up.
RegisterReturn(c) ==
  /\ reg[c] # IdleCall
  /\ LET r == reg[c]
     IN  \/ /\ r.pc = "username"
            /\ IF Cardinality(UsernameMatches(r.username)) > 1
               THEN FinishRegister(c, "MultipleRows")
               ELSE IF UsernameMatches(r.username) # {}
               THEN FinishRegister(c, "UsernameTaken")
               ELSE /\ reg' = [reg EXCEPT ![c].pc = "email"]
                    /\ UNCHANGED <<toast, route>>
            /\ UNCHANGED <<profiles, authUsers, usernames, emails>>
         \/ /\ r.pc = "email"
            /\ IF Cardinality(EmailMatches(r.email)) > 1
               THEN FinishRegister(c, "MultipleRows")
               ELSE IF EmailMatches(r.email) # {}
               THEN FinishRegister(c, "EmailRegistered")
               ELSE /\ reg' = [reg EXCEPT ![c].pc = "signUp"]
                    /\ UNCHANGED <<toast, route>>
            /\ UNCHANGED <<profiles, authUsers, usernames, emails>>
         \/ /\ r.pc = "signUp"
            /\ Users \ authUsers # {}
            /\ \A u \in authUsers : emails[u] # r.email
            /\ LET id == CHOOSE u \in Users : u \notin authUsers
                   name == UsernameAttempt(r.username, 0)
               IN  IF ViolatesUsernameUnique(name)
                   THEN /\ FinishRegister(c, "DatabaseError")
                        /\ UNCHANGED <<profiles, authUsers, usernames, emails>>
                   ELSE /\ authUsers' = authUsers \cup {id}
                        /\ profiles' = profiles \cup {id}
                        /\ usernames' = [usernames EXCEPT ![id] = name]
                        /\ emails' = [emails EXCEPT ![id] = r.email]
                        /\ FinishRegister(c, "RegistrationSuccessful")
         \/ /\ FinishRegister(c, "RequestFailed")
            /\ UNCHANGED <<profiles, authUsers, usernames, emails>>
  /\ UNCHANGED <<storeVars, user, cardVars, chk, vote, delVars, com, shown,
                 posts, postLikes, acct, acctLog, deleteConfirmText, form, formVars,
                 dialogVars, sectionVars>>

\* ------------------------------------------------------------ specification
\* One post of each user, each liked by the other user, the two profiles and
\* the two accounts; nobody is deleting an account.
InitPosts == [q \in {"q1", "q2"} |-> [author_id |-> IF q = "q1" THEN "A" ELSE "B"]]
InitLikes == {[post_id |-> "q1", user_id |-> "B"], [post_id |-> "q2", user_id |-> "A"]}

\* The usernames and emails of the two users; nobody is registering.
InitUsernames == [u \in Users |-> IF u = "A" THEN <<"a", "n">> ELSE <<"b", "o">>]
InitEmails == [u \in Users |-> IF u = "A" THEN "e1" ELSE "e2"]
NoRegistration ==
  /\ usernames = InitUsernames
  /\ emails = InitEmails
  /\ reg = [c \in Clients |-> IdleCall]

\* No comment section is followed.
NoSection == [mounted |-> FALSE, contentType |-> None, contentId |-> None,
              user |-> None, mount |-> 0, inst |-> 0]
NoSections ==
  /\ section = [c \in Clients |-> NoSection]
  /\ commentList = [c \in Clients |-> <<>>]
  /\ fetchError = [c \in Clients |-> FALSE]
  /\ fetches = [c \in Clients |-> {}]
  /\ fetchSeq = [c \in Clients |-> 0]
  /\ channels = {}
  /\ notif = [c \in Clients |-> 0]
  /\ dcom = [c \in Clients |-> IdleCall]

\* No confirmation dialog is open and no account is being deleted.
DialogsClosed ==
  /\ showDeleteConfirm = [c \in Clients |-> FALSE]
  /\ isDeletingAccount = [c \in Clients |-> FALSE]
  /\ showDeleteAccountDialog = [c \in Clients |-> FALSE]

PageIdle == NoRegistration /\ NoSections /\ DialogsClosed

\* The create form as mounted: no content, two empty option fields, no
\* feedback.
BlankForm ==
  /\ content = [c \in Clients |-> ""]
  /\ options = [c \in Clients |-> InitialOptions]
  /\ aiFeedback = [c \in Clients |-> None]
  /\ fb = [c \in Clients |-> IdleCall]
  /\ PageIdle

\* The create form with its content and its two option fields filled in.
FilledForm ==
  /\ content = [c \in Clients |-> "q"]
  /\ options = [c \in Clients |-> <<"x", "y">>]
  /\ aiFeedback \in [Clients -> Feedbacks]
  /\ fb = [c \in Clients |-> IdleCall]
  /\ PageIdle

NoAccountDeletion ==
  /\ posts = InitPosts
  /\ postLikes = InitLikes
  /\ profiles = Users
  /\ authUsers = Users
  /\ acct = [c \in Clients |-> IdleCall]
  /\ acctLog = [c \in Clients |-> <<>>]
  /\ deleteConfirmText = [c \in Clients |-> <<>>]
  /\ route = [c \in Clients |-> "/"]
  /\ form = [c \in Clients |-> IdleCall]
  /\ BlankForm

Init ==
  /\ polls = InitPolls
  /\ pollOptions = InitOptions
  /\ userVotes = EmptyBag
  /\ comments = InitComments
  /\ commentSeq = 0
  /\ user = [c \in Clients |-> None]
  /\ cardPoll = [c \in Clients |-> NoCard]
  /\ hasVoted = [c \in Clients |-> FALSE]
  /\ selectedOption = [c \in Clients |-> None]
  /\ pollData = [c \in Clients |-> <<>>]
  /\ chk = [c \in Clients |-> {}]
  /\ vote = [c \in Clients |-> {}]
  /\ del = [c \in Clients |-> IdleCall]
  /\ delLog = [c \in Clients |-> <<>>]
  /\ isDeleting = [c \in Clients |-> FALSE]
  /\ com = [c \in Clients |-> IdleCall]
  /\ toast = Toast(None, None)
  /\ shown = <<>>
  /\ NoAccountDeletion

Next ==
  \/ \E c \in Clients, uid \in Users : AuthSignedIn(c, uid)
  \/ \E c \in Clients : AuthSignedOut(c)
  \/ \E c \in Clients, p \in CardPolls : MountCard(c, p)
  \/ \E c \in Clients : \E r \in chk[c] : CheckVoteStatusReturn(c, r)
  \/ \E c \in Clients : \E r \in chk[c] : CheckVoteStatusFailed(c, r)
  \/ \E c \in Clients, o \in OptionIds : HandleVote(c, o)
  \/ \E c \in Clients : \E row \in vote[c] : HandleVoteReturn(c, row)

Spec == Init /\ [][Next]_vars

\* The cascade among concurrent writers.  The tabs have their sessions (any
\* user, or none) and show the card of p1, nobody having voted yet.
InitDelete ==
  /\ polls = InitPolls
  /\ pollOptions = InitOptions
  /\ userVotes = EmptyBag
  /\ comments = InitComments
  /\ commentSeq = 0
  /\ user \in [Clients -> Users \cup {None}]
  /\ cardPoll = [c \in Clients |-> [id |-> "p1", authorId |-> InitPolls["p1"].author_id]]
  /\ hasVoted = [c \in Clients |-> FALSE]
  /\ selectedOption = [c \in Clients |-> None]
  /\ pollData = [c \in Clients |->
                   [o \in {x \in OptionIds : InitOptions[x].poll_id = "p1"} |->
                      InitOptions[o].votes]]
  /\ chk = [c \in Clients |-> {}]
  /\ vote = [c \in Clients |-> {}]
  /\ del = [c \in Clients |-> IdleCall]
  /\ delLog = [c \in Clients |-> <<>>]
  /\ isDeleting = [c \in Clients |-> FALSE]
  /\ com = [c \in Clients |-> IdleCall]
  /\ toast = Toast(None, None)
  /\ shown = <<>>
  /\ NoAccountDeletion

NextDelete ==
  \/ \E c \in Clients, o \in OptionIds : HandleVote(c, o)
  \/ \E c \in Clients : \E row \in vote[c] : HandleVoteReturn(c, row)
  \/ \E c \in Clients : HandleDelete(c)
  \/ \E c \in Clients : HandleDeleteReturn(c)
  \/ \E c \in Clients : HandleSubmitComment(c)
  \/ \E c \in Clients : HandleSubmitCommentReturn(c)

SpecDelete == InitDelete /\ [][NextDelete]_vars

\* The rendering of a card: the card of a poll with three options is
\* mounted with any tallies in poll.options, and rendered.
PctOptions == {"red", "blue", "green"}

InitPct ==
  /\ polls = InitPolls
  /\ pollOptions \in [PctOptions -> {[poll_id |-> "p1", text |-> "t", votes |-> n] :
                                       n \in 0..MaxTally}]
  /\ userVotes = EmptyBag
  /\ comments = InitComments
  /\ commentSeq = 0
  /\ user = [c \in Clients |-> None]
  /\ cardPoll = [c \in Clients |->
                   IF c = "c1" THEN [id |-> "p1", authorId |-> InitPolls["p1"].author_id]
                   ELSE NoCard]
  /\ hasVoted = [c \in Clients |-> FALSE]
  /\ selectedOption = [c \in Clients |-> None]
  /\ pollData = [c \in Clients |->
                   IF c = "c1" THEN [o \in PctOptions |-> pollOptions[o].votes]
                   ELSE <<>>]
  /\ chk = [c \in Clients |-> {}]
  /\ vote = [c \in Clients |-> {}]
  /\ del = [c \in Clients |-> IdleCall]
  /\ delLog = [c \in Clients |-> <<>>]
  /\ isDeleting = [c \in Clients |-> FALSE]
  /\ com = [c \in Clients |-> IdleCall]
  /\ toast = Toast(None, None)
  /\ shown = <<>>
  /\ NoAccountDeletion

\* The render of PollCard: one percentage per option of pollData.
Render(c) ==
  /\ cardPoll[c] # NoCard
  /\ shown' = Display(c)
  /\ UNCHANGED <<storeVars, user, cardVars, chk, vote, delVars, com, toast, acctVars, pageVars>>

NextPct == \E c \in Clients : Render(c)

SpecPct == InitPct /\ [][NextPct]_vars

\* The cascade without concurrent writers: p1 has three comments, two votes
\* and its two options, p2 one comment, one vote and its two options; the
\* tabs have their sessions and show the card of p1, and the only handler
\* that runs is handleDelete.
CascadeComments ==
  {NewCommentRow(0, "p2", "B"), NewCommentRow(1, "p1", "A"),
   NewCommentRow(2, "p1", "B"), NewCommentRow(3, "p1", "A")}
CascadeVotes ==
  SetToBag({[poll_id |-> "p1", option_id |-> "red", user_id |-> "A"],
            [poll_id |-> "p1", option_id |-> "blue", user_id |-> "B"],
            [poll_id |-> "p2", option_id |-> "yes", user_id |-> "A"]})

InitCascade ==
  /\ polls = InitPolls
  /\ pollOptions = InitOptions
  /\ userVotes = CascadeVotes
  /\ comments = CascadeComments
  /\ commentSeq = 3
  /\ user \in [Clients -> Users \cup {None}]
  /\ cardPoll = [c \in Clients |-> [id |-> "p1", authorId |-> InitPolls["p1"].author_id]]
  /\ hasVoted = [c \in Clients |-> FALSE]
  /\ selectedOption = [c \in Clients |-> None]
  /\ pollData = [c \in Clients |->
                   [o \in {x \in OptionIds : InitOptions[x].poll_id = "p1"} |->
                      InitOptions[o].votes]]
  /\ chk = [c \in Clients |-> {}]
  /\ vote = [c \in Clients |-> {}]
  /\ del = [c \in Clients |-> IdleCall]
  /\ delLog = [c \in Clients |-> <<>>]
  /\ isDeleting = [c \in Clients |-> FALSE]
  /\ com = [c \in Clients |-> IdleCall]
  /\ toast = Toast(None, None)
  /\ shown = <<>>
  /\ NoAccountDeletion

NextCascade ==
  \/ \E c \in Clients : HandleDelete(c)
  \/ \E c \in Clients : HandleDeleteReturn(c)

SpecCascade == InitCascade /\ [][NextCascade]_vars

\* Account deletion: every user has votes, likes, comments, a poll and a
\* post; the tabs show the profile page, the first with any session and the
\* confirmation text typed in, the second signed out.
AccountComments ==
  {NewCommentRow(0, "p2", "A"), NewCommentRow(1, "p1", "B"),
   [id |-> 2, poll_id |-> None, post_id |-> "q1", author_id |-> "B"],
   [id |-> 3, poll_id |-> None, post_id |-> "q2", author_id |-> "A"]}

InitAccount ==
  /\ polls = InitPolls
  /\ pollOptions = InitOptions
  /\ userVotes = CascadeVotes
  /\ comments = AccountComments
  /\ commentSeq = 3
  /\ user \in {u \in [Clients -> Users \cup {None}] : u["c2"] = None}
  /\ cardPoll = [c \in Clients |-> NoCard]
  /\ hasVoted = [c \in Clients |-> FALSE]
  /\ selectedOption = [c \in Clients |-> None]
  /\ pollData = [c \in Clients |-> <<>>]
  /\ chk = [c \in Clients |-> {}]
  /\ vote = [c \in Clients |-> {}]
  /\ del = [c \in Clients |-> IdleCall]
  /\ delLog = [c \in Clients |-> <<>>]
  /\ isDeleting = [c \in Clients |-> FALSE]
  /\ com = [c \in Clients |-> IdleCall]
  /\ toast = Toast(None, None)
  /\ shown = <<>>
  /\ posts = InitPosts
  /\ postLikes = InitLikes
  /\ profiles = Users
  /\ authUsers = Users
  /\ acct = [c \in Clients |-> IdleCall]
  /\ acctLog = [c \in Clients |-> <<>>]
  /\ deleteConfirmText = [c \in Clients |-> IF c = "c1" THEN ConfirmPhrase ELSE <<>>]
  /\ route = [c \in Clients |-> "/"]
  /\ form = [c \in Clients |-> IdleCall]
  /\ BlankForm

NextAccount ==
  \/ \E c \in Clients : HandleDeleteAccount(c)
  \/ \E c \in Clients : HandleDeleteAccountReturn(c)

SpecAccount == InitAccount /\ [][NextAccount]_vars

\* The confirmation dialog: accounts that own no content, the tabs with any
\* session, any text typed into the field.
InitConfirm ==
  /\ polls = <<>>
  /\ pollOptions = <<>>
  /\ userVotes = EmptyBag
  /\ comments = {}
  /\ commentSeq = 0
  /\ user \in [Clients -> Users \cup {None}]
  /\ cardPoll = [c \in Clients |-> NoCard]
  /\ hasVoted = [c \in Clients |-> FALSE]
  /\ selectedOption = [c \in Clients |-> None]
  /\ pollData = [c \in Clients |-> <<>>]
  /\ chk = [c \in Clients |-> {}]
  /\ vote = [c \in Clients |-> {}]
  /\ del = [c \in Clients |-> IdleCall]
  /\ delLog = [c \in Clients |-> <<>>]
  /\ isDeleting = [c \in Clients |-> FALSE]
  /\ com = [c \in Clients |-> IdleCall]
  /\ toast = Toast(None, None)
  /\ shown = <<>>
  /\ posts = <<>>
  /\ postLikes = {}
  /\ profiles = Users
  /\ authUsers = Users
  /\ acct = [c \in Clients |-> IdleCall]
  /\ acctLog = [c \in Clients |-> <<>>]
  /\ deleteConfirmText = [c \in Clients |-> <<>>]
  /\ route = [c \in Clients |-> "/"]
  /\ form = [c \in Clients |-> IdleCall]
  /\ BlankForm

NextConfirm ==
  \/ \E c \in Clients, text \in ConfirmTexts : SetDeleteConfirmText(c, text)
  \/ \E c \in Clients : HandleDeleteAccount(c)
  \/ \E c \in Clients : HandleDeleteAccountReturn(c)

SpecConfirm == InitConfirm /\ [][NextConfirm]_vars

\* Commenting and publishing: the polls and posts of the two users without
\* any comment yet; the first tab is user A's, the second user B's or signed
\* out, and they show comment sections of posts and polls and the two create
\* forms.
InitComment ==
  /\ polls = InitPolls
  /\ pollOptions = InitOptions
  /\ userVotes = EmptyBag
  /\ comments = {}
  /\ commentSeq = 0
  /\ user \in {u \in [Clients -> Users \cup {None}] : u["c1"] = "A" /\ u["c2"] # "A"}
  /\ cardPoll = [c \in Clients |-> NoCard]
  /\ hasVoted = [c \in Clients |-> FALSE]
  /\ selectedOption = [c \in Clients |-> None]
  /\ pollData = [c \in Clients |-> <<>>]
  /\ chk = [c \in Clients |-> {}]
  /\ vote = [c \in Clients |-> {}]
  /\ del = [c \in Clients |-> IdleCall]
  /\ delLog = [c \in Clients |-> <<>>]
  /\ isDeleting = [c \in Clients |-> FALSE]
  /\ com = [c \in Clients |-> IdleCall]
  /\ toast = Toast(None, None)
  /\ shown = <<>>
  /\ posts = InitPosts
  /\ postLikes = InitLikes
  /\ profiles = Users
  /\ authUsers = Users
  /\ acct = [c \in Clients |-> IdleCall]
  /\ acctLog = [c \in Clients |-> <<>>]
  /\ deleteConfirmText = [c \in Clients |-> <<>>]
  /\ route = [c \in Clients |-> "/create"]
  /\ form = [c \in Clients |-> IdleCall]
  /\ FilledForm

\* The content ids of the comment sections shown: a post, a poll, and a
\* section that was given no id.
SectionPosts == {"q1", None}
SectionPolls == {"p2", None}

NextComment ==
  \/ \E c \in Clients, q \in SectionPosts : HandleSubmitCommentOn(c, "post", q)
  \/ \E c \in Clients, p \in SectionPolls : HandleSubmitCommentOn(c, "poll", p)
  \/ \E c \in Clients : HandleSubmitCommentReturn(c)
  \/ \E c \in Clients, kind \in {"post", "poll"} : HandleSubmit(c, kind)
  \/ \E c \in Clients : HandleSubmitReturn(c)

SpecComment == InitComment /\ [][NextComment]_vars

\* The poll form.  Tab c1 is signed in as A and has typed a question; the
\* option fields are edited, added and removed, and the poll is submitted
\* while an id for a new poll is left.
FormClients == {"c1"}

InitPollForm ==
  /\ polls = InitPolls
  /\ pollOptions = InitOptions
  /\ userVotes = EmptyBag
  /\ comments = InitComments
  /\ commentSeq = 1
  /\ user = [c \in Clients |-> IF c \in FormClients THEN "A" ELSE None]
  /\ cardPoll = [c \in Clients |-> NoCard]
  /\ hasVoted = [c \in Clients |-> FALSE]
  /\ selectedOption = [c \in Clients |-> None]
  /\ pollData = [c \in Clients |-> <<>>]
  /\ chk = [c \in Clients |-> {}]
  /\ vote = [c \in Clients |-> {}]
  /\ del = [c \in Clients |-> IdleCall]
  /\ delLog = [c \in Clients |-> <<>>]
  /\ isDeleting = [c \in Clients |-> FALSE]
  /\ com = [c \in Clients |-> IdleCall]
  /\ toast = Toast(None, None)
  /\ shown = <<>>
  /\ posts = InitPosts
  /\ postLikes = InitLikes
  /\ profiles = Users
  /\ authUsers = Users
  /\ acct = [c \in Clients |-> IdleCall]
  /\ acctLog = [c \in Clients |-> <<>>]
  /\ deleteConfirmText = [c \in Clients |-> <<>>]
  /\ route = [c \in Clients |-> "/create"]
  /\ form = [c \in Clients |-> IdleCall]
  /\ content = [c \in Clients |-> "q"]
  /\ options = [c \in Clients |-> InitialOptions]
  /\ aiFeedback = [c \in Clients |-> None]
  /\ fb = [c \in Clients |-> IdleCall]
  /\ PageIdle

NewPolls == DOMAIN polls \ DOMAIN InitPolls

NextPollForm ==
  \/ \E c \in FormClients, i \in 1..MaxOptions, value \in OptionTexts :
       HandleOptionChange(c, i, value)
  \/ \E c \in FormClients : AddOption(c)
  \/ \E c \in FormClients, i \in 1..MaxOptions : RemoveOption(c, i)
  \/ \E c \in FormClients :
       Cardinality(NewPolls) < MaxPolls /\ HandleSubmit(c, "poll")
  \/ \E c \in FormClients : HandleSubmitReturn(c)

SpecPollForm == InitPollForm /\ [][NextPollForm]_vars

\* The feedback of the create forms.  Tab c1 is signed in as A and opens the
\* post form or the poll form, types, asks for feedback and submits; the
\* option fields of the poll form are filled in as the question is typed.
InitFeedback ==
  /\ polls = InitPolls
  /\ pollOptions = InitOptions
  /\ userVotes = EmptyBag
  /\ comments = InitComments
  /\ commentSeq = 1
  /\ user = [c \in Clients |-> IF c \in FormClients THEN "A" ELSE None]
  /\ cardPoll = [c \in Clients |-> NoCard]
  /\ hasVoted = [c \in Clients |-> FALSE]
  /\ selectedOption = [c \in Clients |-> None]
  /\ pollData = [c \in Clients |-> <<>>]
  /\ chk = [c \in Clients |-> {}]
  /\ vote = [c \in Clients |-> {}]
  /\ del = [c \in Clients |-> IdleCall]
  /\ delLog = [c \in Clients |-> <<>>]
  /\ isDeleting = [c \in Clients |-> FALSE]
  /\ com = [c \in Clients |-> IdleCall]
  /\ toast = Toast(None, None)
  /\ shown = <<>>
  /\ NoAccountDeletion

\* The user types the question and the two options of a poll.
FillPollForm(c, value) ==
  /\ content' = [content EXCEPT ![c] = value]
  /\ options' = [options EXCEPT ![c] = <<"x", " y">>]
  /\ UNCHANGED <<storeVars, user, cardVars, chk, vote, delVars, com, toast, shown, regVars, dialogVars, sectionVars,
                 acctVars, form, aiFeedback, fb>>

NextFeedback ==
  \/ \E c \in FormClients, kind \in {"post", "poll"} : OpenForm(c, kind)
  \/ \E c \in FormClients, value \in ContentTexts :
       route[c] = FormRoute("post") /\ SetContent(c, value)
  \/ \E c \in FormClients, value \in ContentTexts :
       route[c] = FormRoute("poll") /\ FillPollForm(c, value)
  \/ \E c \in FormClients, kind \in {"post", "poll"} :
       route[c] = FormRoute(kind) /\ GetFeedback(c, kind)
  \/ \E c \in FormClients, response \in Responses : GetFeedbackReturn(c, response)
  \/ \E c \in FormClients, kind \in {"post", "poll"} :
       route[c] = FormRoute(kind) /\ HandleSubmit(c, kind)
  \/ \E c \in FormClients : HandleSubmitReturn(c)

SpecFeedback == InitFeedback /\ [][NextFeedback]_vars

\* Registration.  No account exists yet; the two tabs register, with a
\* username typed in or without one, in any interleaving.
InitRegister ==
  /\ polls = InitPolls
  /\ pollOptions = InitOptions
  /\ userVotes = EmptyBag
  /\ comments = InitComments
  /\ commentSeq = 1
  /\ user = [c \in Clients |-> None]
  /\ cardPoll = [c \in Clients |-> NoCard]
  /\ hasVoted = [c \in Clients |-> FALSE]
  /\ selectedOption = [c \in Clients |-> None]
  /\ pollData = [c \in Clients |-> <<>>]
  /\ chk = [c \in Clients |-> {}]
  /\ vote = [c \in Clients |-> {}]
  /\ del = [c \in Clients |-> IdleCall]
  /\ delLog = [c \in Clients |-> <<>>]
  /\ isDeleting = [c \in Clients |-> FALSE]
  /\ com = [c \in Clients |-> IdleCall]
  /\ toast = Toast(None, None)
  /\ shown = <<>>
  /\ posts = InitPosts
  /\ postLikes = InitLikes
  /\ profiles = {}
  /\ authUsers = {}
  /\ acct = [c \in Clients |-> IdleCall]
  /\ acctLog = [c \in Clients |-> <<>>]
  /\ deleteConfirmText = [c \in Clients |-> <<>>]
  /\ route = [c \in Clients |-> "/auth"]
  /\ form = [c \in Clients |-> IdleCall]
  /\ content = [c \in Clients |-> ""]
  /\ options = [c \in Clients |-> InitialOptions]
  /\ aiFeedback = [c \in Clients |-> None]
  /\ fb = [c \in Clients |-> IdleCall]
  /\ usernames = [u \in Users |-> <<>>]
  /\ emails = [u \in Users |-> None]
  /\ reg = [c \in Clients |-> IdleCall]
  /\ NoSections
  /\ DialogsClosed

NextRegister ==
  \/ \E c \in Clients, providedUsername \in ProvidedNames \cup {<<>>} :
       Register(c, providedUsername)
  \/ \E c \in Clients : RegisterReturn(c)

SpecRegister == InitRegister /\ [][NextRegister]_vars

\* The comment list.  Tab c1 is signed in as A and opens the comment section
\* of poll p2, which has one comment of B; tab c2 is signed in as B.  Both
\* comment on p2 and delete comments, and the section of c1 follows the
\* changes.
ListClients == {"c1"}
CommentIds == 0..MaxComments

InitList ==
  /\ polls = InitPolls
  /\ pollOptions = InitOptions
  /\ userVotes = EmptyBag
  /\ comments = InitComments
  /\ commentSeq = 0
  /\ user = [c \in Clients |-> IF c \in ListClients THEN "A" ELSE "B"]
  /\ cardPoll = [c \in Clients |-> NoCard]
  /\ hasVoted = [c \in Clients |-> FALSE]
  /\ selectedOption = [c \in Clients |-> None]
  /\ pollData = [c \in Clients |-> <<>>]
  /\ chk = [c \in Clients |-> {}]
  /\ vote = [c \in Clients |-> {}]
  /\ del = [c \in Clients |-> IdleCall]
  /\ delLog = [c \in Clients |-> <<>>]
  /\ isDeleting = [c \in Clients |-> FALSE]
  /\ com = [c \in Clients |-> IdleCall]
  /\ toast = Toast(None, None)
  /\ shown = <<>>
  /\ NoAccountDeletion

\* The delete button of a comment is rendered for its author only (isAuthor),
\* in a section that is followed for the comments it shows.
DeleteOffered(c, id) ==
  /\ \E r \in comments : r.id = id /\ r.author_id = user[c]
  /\ c \in ListClients => \E i \in DOMAIN commentList[c] : commentList[c][i] = id

NextList ==
  \/ \E c \in ListClients : MountSection(c, "poll", "p2")
  \/ \E c \in ListClients : DeliverChange(c)
  \/ \E c \in ListClients : RetryFetch(c)
  \/ \E c \in ListClients : \E f \in fetches[c] : StoreAnswersFetch(c, f)
  \/ \E c \in ListClients : \E f \in fetches[c] : FetchCommentsReturn(c, f)
  \/ \E c \in Clients : HandleSubmitCommentOn(c, "poll", "p2")
  \/ \E c \in Clients : HandleSubmitCommentReturn(c)
  \/ \E c \in Clients, id \in CommentIds :
       DeleteOffered(c, id) /\ HandleDeleteComment(c, id)
  \/ \E c \in Clients : HandleDeleteCommentReturn(c)

SpecList == InitList /\ [][NextList]_vars
\* ======================================================================
\* Claims
\* ======================================================================
VoteRow(p, o, uid) == [poll_id |-> p, option_id |-> o, user_id |-> uid]

\* The handleVote call of tab c that sent `row` resumes in this step.
VoteResumes(c, row) == row \in vote[c] /\ row \notin vote'[c]

\* The subscriptions of a comment section: the first tab, signed in or not,
\* mounts a section for a poll, for a post or without a content id, renders
\* it with other props or after the user has changed, signs in and out, and
\* unmounts it.
SectionProps == {<<"poll", "p2">>, <<"post", "q1">>, <<"poll", None>>}

InitChannel ==
  /\ polls = InitPolls
  /\ pollOptions = InitOptions
  /\ userVotes = EmptyBag
  /\ comments = InitComments
  /\ commentSeq = 0
  /\ user \in [Clients -> {"A", None}]
  /\ cardPoll = [c \in Clients |-> NoCard]
  /\ hasVoted = [c \in Clients |-> FALSE]
  /\ selectedOption = [c \in Clients |-> None]
  /\ pollData = [c \in Clients |-> <<>>]
  /\ chk = [c \in Clients |-> {}]
  /\ vote = [c \in Clients |-> {}]
  /\ del = [c \in Clients |-> IdleCall]
  /\ delLog = [c \in Clients |-> <<>>]
  /\ isDeleting = [c \in Clients |-> FALSE]
  /\ com = [c \in Clients |-> IdleCall]
  /\ toast = Toast(None, None)
  /\ shown = <<>>
  /\ NoAccountDeletion

NextChannel ==
  \/ \E c \in ListClients, props \in SectionProps : MountSection(c, props[1], props[2])
  \/ \E c \in ListClients, props \in SectionProps : RunEffect(c, props[1], props[2])
  \/ \E c \in ListClients : UnmountSection(c)
  \/ \E c \in ListClients, uid \in Users : AuthSignedIn(c, uid)
  \/ \E c \in ListClients : AuthSignedOut(c)
  \/ \E c \in ListClients : RemoveAllChannels(c)
  \/ \E c \in ListClients : \E f \in fetches[c] : StoreAnswersFetch(c, f)
  \/ \E c \in ListClients : \E f \in fetches[c] : FetchCommentsReturn(c, f)

SpecChannel == InitChannel /\ [][NextChannel]_vars

\* Whose comments a delete call removes: the tabs, the first with any session
\* and the second with user B, write comments on poll p2 and call
\* handleDeleteComment with any comment id.
InitOwner ==
  /\ polls = InitPolls
  /\ pollOptions = InitOptions
  /\ userVotes = EmptyBag
  /\ comments = InitComments
  /\ commentSeq = 0
  /\ user \in {u \in [Clients -> Users \cup {None}] : u["c2"] = "B"}
  /\ cardPoll = [c \in Clients |-> NoCard]
  /\ hasVoted = [c \in Clients |-> FALSE]
  /\ selectedOption = [c \in Clients |-> None]
  /\ pollData = [c \in Clients |-> <<>>]
  /\ chk = [c \in Clients |-> {}]
  /\ vote = [c \in Clients |-> {}]
  /\ del = [c \in Clients |-> IdleCall]
  /\ delLog = [c \in Clients |-> <<>>]
  /\ isDeleting = [c \in Clients |-> FALSE]
  /\ com = [c \in Clients |-> IdleCall]
  /\ toast = Toast(None, None)
  /\ shown = <<>>
  /\ NoAccountDeletion

NextOwner ==
  \/ \E c \in Clients, uid \in Users : AuthSignedIn(c, uid)
  \/ \E c \in Clients : AuthSignedOut(c)
  \/ \E c \in Clients : HandleSubmitCommentOn(c, "poll", "p2")
  \/ \E c \in Clients : HandleSubmitCommentReturn(c)
  \/ \E c \in Clients, id \in CommentIds : HandleDeleteComment(c, id)
  \/ \E c \in Clients : HandleDeleteCommentReturn(c)

SpecOwner == InitOwner /\ [][NextOwner]_vars

\* Deletions that run to their end.  The first tab shows the profile page of
\* user A with the card of A's poll and the confirmation text typed in; the
\* second tab shows the same card to user B.  There are no comments and no
\* likes.  Every request that was sent is
\* answered: the store's answer and the resumption of the handler are one
\* step, which is taken if it stays possible.
InitTerminate ==
  /\ polls = InitPolls
  /\ pollOptions = InitOptions
  /\ userVotes = EmptyBag
  /\ comments = {}
  /\ commentSeq = 0
  /\ user = [c \in Clients |-> IF c = "c1" THEN "A" ELSE "B"]
  /\ cardPoll = [c \in Clients |-> [id |-> "p1", authorId |-> InitPolls["p1"].author_id]]
  /\ hasVoted = [c \in Clients |-> FALSE]
  /\ selectedOption = [c \in Clients |-> None]
  /\ pollData = [c \in Clients |->
                   [o \in {x \in OptionIds : InitOptions[x].poll_id = "p1"} |->
                      InitOptions[o].votes]]
  /\ chk = [c \in Clients |-> {}]
  /\ vote = [c \in Clients |-> {}]
  /\ del = [c \in Clients |-> IdleCall]
  /\ delLog = [c \in Clients |-> <<>>]
  /\ isDeleting = [c \in Clients |-> FALSE]
  /\ com = [c \in Clients |-> IdleCall]
  /\ toast = Toast(None, None)
  /\ shown = <<>>
  /\ posts = InitPosts
  /\ postLikes = {}
  /\ profiles = Users
  /\ authUsers = Users
  /\ acct = [c \in Clients |-> IdleCall]
  /\ acctLog = [c \in Clients |-> <<>>]
  /\ deleteConfirmText = [c \in Clients |-> IF c = "c1" THEN ConfirmPhrase ELSE <<>>]
  /\ route = [c \in Clients |-> IF c = "c1" THEN "/profile" ELSE "/"]
  /\ form = [c \in Clients |-> IdleCall]
  /\ BlankForm

\* The tab whose user acts; the other tab only shows the card.
TerminateClients == {"c1"}

NextTerminate ==
  \/ \E c \in TerminateClients : ToggleDeleteConfirm(c)
  \/ \E c \in TerminateClients : showDeleteConfirm[c] /\ del[c] = IdleCall /\ HandleDelete(c)
  \/ \E c \in TerminateClients : HandleDeleteReturn(c)
  \/ \E c \in TerminateClients : UnmountCard(c)
  \/ \E c \in TerminateClients, open \in BOOLEAN : SetShowDeleteAccountDialog(c, open)
  \/ \E c \in TerminateClients :
       /\ route[c] = "/profile" /\ showDeleteAccountDialog[c] /\ ~isDeletingAccount[c]
       /\ HandleDeleteAccount(c)
  \/ \E c \in TerminateClients : HandleDeleteAccountReturn(c)
  \/ \E c \in TerminateClients : LeaveProfile(c)

StoreAnswers ==
  \A c \in TerminateClients :
    /\ WF_vars(HandleDeleteReturn(c))
    /\ WF_vars(HandleDeleteAccountReturn(c))

SpecTerminate == InitTerminate /\ [][NextTerminate]_vars /\ StoreAnswers

\* ---------------------------------------------------------------------- C1
\* C1: for every poll, the sum of the persisted vote counters of its
\* poll_options rows equals the number of its user_votes rows.
C1_TallyEqualsVotes ==
  \A p \in DOMAIN polls : PersistedSum(p) = VoteCount(p)

\* ---------------------------------------------------------------------- C2
\* C2: when a handleVote call resumes for a user who already has a
\* user_votes row for the poll, the attempt is rejected: the notification is
\* the failure one, no row is stored or changed, and the persisted and the
\* displayed tallies and the voted state of every card are unchanged; and no
\* (poll, user) pair ever has two rows.
C2_NoSecondVote ==
  /\ [](\A p \in Polls, uid \in Users : VoteCountOf(p, uid) <= 1)
  /\ [][\A c \in Clients : \A row \in vote[c] :
          (VoteResumes(c, row) /\ VoteCountOf(row.poll_id, row.user_id) > 0)
            => /\ toast' = Toast(c, "VoteFailed")
               /\ userVotes' = userVotes
               /\ pollOptions' = pollOptions
               /\ pollData' = pollData
               /\ hasVoted' = hasVoted
               /\ selectedOption' = selectedOption]_vars

\* A tab whose card still shows the vote state was rejected after another
\* tab of the same user had voted.
C2_Witness ==
  \E c, d \in Clients :
    /\ c # d /\ user[c] # None /\ user[d] = user[c]
    /\ toast = Toast(c, "VoteFailed") /\ ~hasVoted[c]
    /\ hasVoted[d] /\ TotalVotes(pollData[d]) = 1
    /\ VoteCountOf("p1", user[c]) = 1

\* ---------------------------------------------------------------------- C3
\* C3: duplicates are rejected by the store whatever the cards show: no
\* (poll, user) pair ever has two rows; a cast reports success only in the
\* step that stores the pair's only row; and a cast of a user without a row
\* can succeed whatever rows other users have.
C3_OneVotePerUser ==
  /\ [](\A p \in Polls, uid \in Users : VoteCountOf(p, uid) <= 1)
  /\ [](\A c \in Clients : \A row \in vote[c] :
          VoteCountOf(row.poll_id, row.user_id) = 0
            => ENABLED (HandleVoteReturn(c, row) /\ toast' = Toast(c, "VoteRecorded")))
  /\ [][\A c \in Clients : \A row \in vote[c] :
          (VoteResumes(c, row) /\ toast' = Toast(c, "VoteRecorded"))
            => /\ VoteCountOf(row.poll_id, row.user_id) = 0
               /\ userVotes' = userVotes (+) SetToBag({row})]_vars

\* The vote of a user is stored and recorded in one tab while a second cast
\* of the same user, sent from a card that still showed the vote state, is
\* in flight.
C3_Witness ==
  \E c, d \in Clients : \E row \in vote[d] :
    /\ c # d /\ user[c] = row.user_id
    /\ hasVoted[c] /\ ~hasVoted[d]
    /\ TotalVotes(pollData[c]) = 1
    /\ VoteCountOf(row.poll_id, row.user_id) = 1

\* ---------------------------------------------------------------------- C5
\* The card of tab c is mounted in this step.
Mounts(c) == cardPoll[c] = NoCard /\ cardPoll'[c] # NoCard

\* C5: a read of the poll options after a successful vote reflects the vote,
\* for every reader: a card mounted when user A's vote for Red is the only
\* vote of p1 shows Red 100%, Blue 0% and a total of 1; and a card mounted by
\* then, whose user B then votes Blue, shows Red 50%, Blue 50%, total 2.
C5_ReadsReflectVotes ==
  [][\A c \in Clients :
       /\ (Mounts(c) /\ userVotes = SetToBag({VoteRow("p1", "red", "A")}))
            => /\ (TotalVotes(pollData[c]) = 1)'
               /\ (Display(c) = [o \in {"red", "blue"} |-> IF o = "red" THEN 100 ELSE 0])'
       /\ (VoteResumes(c, VoteRow("p1", "blue", "B"))
              /\ toast' = Toast(c, "VoteRecorded")
              /\ userVotes = SetToBag({VoteRow("p1", "red", "A")})
              /\ pollData[c] = [o \in {"red", "blue"} |-> pollOptions[o].votes])
            => /\ (TotalVotes(pollData[c]) = 2)'
               /\ (Display(c) = [o \in {"red", "blue"} |-> 50])']_vars

\* ---------------------------------------------------------------------- C7
\* C7: when checkVoteStatus completes for the signed-in user it was started
\* for, selectedOption is the option_id of that user's user_votes row and
\* hasVoted is true exactly when the row exists; a lookup is only ever made
\* for a signed-in user, and a card mounted without one shows the vote state.
C7_HasVotedReturnsStoredOption ==
  /\ [](\A c \in Clients : \A r \in chk[c] : r.user_id # None)
  /\ [][\A c \in Clients :
          /\ \A r \in chk[c] :
                CheckVoteStatusReturn(c, r)
                  => LET stored == SelectVote(r.poll_id, r.user_id)
                     IN  /\ hasVoted'[c] <=> (stored # None)
                         /\ selectedOption'[c] = stored
          /\ user'[c] = None => chk'[c] \subseteq chk[c]
          /\ (Mounts(c) /\ user[c] = None)
               => ~hasVoted'[c] /\ selectedOption'[c] = None]_vars
\* ---------------------------------------------------------------------- C4
\* C4: no vote is counted without being recorded: for every poll the sum of
\* the persisted option counters never exceeds the number of its user_votes
\* rows, also after a failed insert and while the poll is being deleted.
C4_NoCountedUnrecordedVote ==
  \A p \in Polls : PersistedSum(p) <= VoteCount(p)

\* A vote insert has failed while another vote of the poll is recorded.
C4_Witness ==
  /\ toast.title = "VoteFailed"
  /\ VoteCount("p1") = 1
  /\ PersistedSum("p1") = 0
  /\ \E c \in Clients : hasVoted[c] /\ toast.tab # c

\* ---------------------------------------------------------------------- C8
\* The rows of the store that belong to poll p.
RowsOf(p) ==
  [poll |-> IF p \in DOMAIN polls THEN {polls[p]} ELSE {},
   options |-> Restrict(pollOptions, OptionsOf(p)),
   votes |-> [r \in VoteRows(p) |-> userVotes[r]],
   comments |-> {r \in comments : r.poll_id = p}]

\* C8: handleDelete invoked by an actor who is not signed in, or who is not
\* the poll's author, shows Unauthorized and starts no deletion sequence: no
\* delete request is sent and no row of any table changes; a sequence is only
\* ever started by the signed-in author of the poll.
C8_UnauthorizedDeleteDoesNothing ==
  [][\A c \in Clients :
       LET unauthorized == user[c] = None \/ user[c] # InitPolls[cardPoll[c].id].author_id
       IN  /\ (HandleDelete(c) /\ unauthorized)
                => /\ toast' = Toast(c, "Unauthorized")
                   /\ del' = del /\ delLog' = delLog /\ isDeleting' = isDeleting
                   /\ \A p \in Polls : RowsOf(p)' = RowsOf(p)
           /\ (del[c] = IdleCall /\ del'[c] # IdleCall) => ~unauthorized
           /\ (toast' = Toast(c, "Unauthorized") /\ toast' # toast)
                => \A p \in Polls : RowsOf(p)' = RowsOf(p)]_vars

\* User B and a signed-out tab have both been refused, and p1 is intact.
C8_Witness ==
  \E c \in Clients :
    /\ toast = Toast(c, "Unauthorized")
    /\ user[c] \in {"B", None}
    /\ cardPoll[c].authorId = "A"
    /\ "p1" \in DOMAIN polls /\ OptionsOf("p1") = {"red", "blue"}
    /\ del[c] = IdleCall

\* ---------------------------------------------------------------------- C9
IsPrefix(s, t) == Len(s) <= Len(t) /\ \A i \in 1..Len(s) : s[i] = t[i]

\* The rows of poll p in the table a delete request is sent to.
TableRows(table, p) ==
  CASE table = "comments" -> {r \in comments : r.poll_id = p}
    [] table = "user_votes" -> VoteRows(p)
    [] table = "poll_options" -> OptionsOf(p)
    [] table = "polls" -> {p} \cap DOMAIN polls

\* C9: the delete requests of one handleDelete call go to comments,
\* user_votes, poll_options and polls in this order; only the last request
\* sent is in flight, all earlier ones having been answered; and a request is
\* sent only in the step in which the one before it succeeded, so that the
\* poll row delete is sent only after the three dependent deletes succeeded.
C9_DeleteOrder ==
  /\ [](\A c \in Clients :
          /\ IsPrefix(delLog[c], <<"comments", "user_votes", "poll_options", "polls">>)
          /\ (del[c] = IdleCall) <=> (delLog[c] = <<>>)
          /\ del[c] # IdleCall => del[c].pc = Len(delLog[c]))
  /\ [][\A c \in Clients :
          (delLog[c] # <<>> /\ Len(delLog'[c]) = Len(delLog[c]) + 1)
            => /\ delLog'[c] = Append(delLog[c], delLog'[c][Len(delLog'[c])])
               /\ \A table \in {delLog[c][Len(delLog[c])]}, p \in {del[c].poll_id} :
                    (TableRows(table, p) = {})'
               /\ toast' = toast]_vars

\* The delete of the poll row is in flight, after the three others, while
\* another tab has a request of its own in flight.
C9_Witness ==
  \E c, d \in Clients :
    /\ c # d
    /\ delLog[c] = <<"comments", "user_votes", "poll_options", "polls">>
    /\ del[c].pc = 4
    /\ vote[d] # {} \/ com[d] # IdleCall

\* --------------------------------------------------------------------- C11
\* The handleDelete call of tab c resumes in this step.
DeleteResumes(c) == del[c] # IdleCall /\ del'[c] # del[c]

\* ... and ends in this step, in the catch block / after the last delete.
DeleteFails(c) ==
  DeleteResumes(c) /\ del'[c] = IdleCall /\ toast' = Toast(c, "DeleteFailed")
DeleteSucceeds(c) ==
  DeleteResumes(c) /\ del'[c] = IdleCall /\ toast' = Toast(c, "PollDeleted")

NoRows == [poll |-> {}, options |-> <<>>, votes |-> <<>>, comments |-> {}]

\* C11: a delete request of the sequence that fails ends the sequence in
\* that step: the step that leaves rows in the table it was sent to shows the
\* failure notification and sends no further request; the failing step
\* changes no row (nothing is restored, nothing more is deleted), does not
\* call onDelete (the card stays mounted) and clears isDeleting; and the poll
\* row is removed by no step of a sequence other than its last, successful
\* one.
C11_DeleteAbortsOnError ==
  [][\A c \in Clients :
       DeleteResumes(c) =>
         /\ \A table \in {DeleteOrder[del[c].pc]}, p \in {del[c].poll_id} :
              (TableRows(table, p) # {})' => DeleteFails(c)
         /\ del'[c] = IdleCall => DeleteFails(c) \/ DeleteSucceeds(c)
         /\ DeleteFails(c)
              => /\ delLog'[c] = <<>>
                 /\ UNCHANGED storeVars
                 /\ cardPoll' = cardPoll
                 /\ ~isDeleting'[c]
         /\ ~DeleteSucceeds(c) => polls' = polls]_vars

\* The sequence of a tab failed at its third request: the comments and the
\* votes of p1 are gone, its options and its row are still there, and the
\* card is still mounted.
C11_Witness ==
  \E c \in Clients :
    /\ toast = Toast(c, "DeleteFailed")
    /\ cardPoll[c].id = "p1" /\ del = [d \in Clients |-> IdleCall]
    /\ RowsOf("p1").comments = {} /\ VoteCount("p1") = 0
    /\ OptionsOf("p1") = {"red", "blue"}
    /\ "p1" \in DOMAIN polls

\* --------------------------------------------------------------------- C12
\* C12: poll deletion can be run again: no delete request of a sequence is
\* answered with an error because its rows, or the poll, are already gone
\* (such a request changes nothing); the author can start the sequence again
\* after a failed one; and whenever a sequence reports success, also a
\* repeated one, no poll_options, user_votes or comments row of the poll
\* and no poll row is left.
C12_DeleteIdempotent ==
  /\ [](\A c \in Clients :
          /\ del[c] # IdleCall
               => ENABLED (HandleDeleteReturn(c) /\ ~DeleteFails(c))
          /\ (toast = Toast(c, "DeleteFailed") /\ del[c] = IdleCall)
               => ENABLED (HandleDelete(c) /\ del'[c] # IdleCall))
  /\ [][\A c \in Clients :
          DeleteResumes(c) =>
            \A table \in {DeleteOrder[del[c].pc]}, p \in {del[c].poll_id} :
              /\ TableRows(table, p) = {} => UNCHANGED storeVars
              /\ DeleteSucceeds(c) => RowsOf(p)' = NoRows]_vars

\* Both tabs of the author have run the sequence to its end, so the later
\* poll row delete found the poll already gone.
C12_Witness ==
  /\ \A c \in Clients : cardPoll[c] = NoCard /\ del[c] = IdleCall
  /\ toast.title = "PollDeleted"
  /\ RowsOf("p1") = NoRows

\* --------------------------------------------------------------------- C13
\* C13: when the author's sequence reports success and nothing else writes,
\* the three comments, two votes and two options of p1 and the row of p1 are
\* gone, and the rows of the other poll are never touched.
C13_CascadeRemovesAll ==
  /\ [](RowsOf("p2") = [poll |-> {InitPolls["p2"]},
                        options |-> Restrict(InitOptions, {"yes", "no"}),
                        votes |-> SetToBag({VoteRow("p2", "yes", "A")}),
                        comments |-> {NewCommentRow(0, "p2", "B")}])
  /\ [][\A c \in Clients :
          DeleteSucceeds(c)
            => /\ DOMAIN polls' = {"p2"}
               /\ DOMAIN pollOptions' = {"yes", "no"}
               /\ userVotes' = SetToBag({VoteRow("p2", "yes", "A")})
               /\ comments' = {NewCommentRow(0, "p2", "B")}]_vars

\* The first sequence to finish has just reported success: of the thirteen
\* rows of the store, the five of p2 are left.
C13_Witness ==
  \E c, d \in Clients :
    /\ c # d /\ toast = Toast(c, "PollDeleted") /\ cardPoll[d] # NoCard
    /\ del[d] = IdleCall
    /\ Cardinality(comments) + BagCardinality(userVotes)
         + Cardinality(DOMAIN pollOptions) + Cardinality(DOMAIN polls) = 5

\* --------------------------------------------------------------------- C14
\* Two texts are equal but for the case of their letters.
SameIgnoringCase(a, b) ==
  /\ Len(a) = Len(b)
  /\ \A i \in 1..Len(a) :
       \/ a[i] = b[i]
       \/ \E j \in DOMAIN Uppers : {a[i], b[i]} = {Uppers[j], Lowers[j]}

\* C14: handleDeleteAccount itself checks the confirmation text: invoked
\* without a signed-in user it changes nothing; invoked with a text that is
\* not 'delete my account' up to the case of its letters it shows the
\* mismatch notification, starts no call and sends no request (no row of the
\* store changes); invoked with such a text it sends its first request; and
\* a call is only ever started by a signed-in user with such a text.
C14_ConfirmationRequired ==
  [][\A c \in Clients :
       LET matches == SameIgnoringCase(deleteConfirmText[c], ConfirmPhrase)
       IN  /\ (acct[c] = IdleCall /\ acct'[c] # IdleCall)
                => user[c] # None /\ matches
           /\ HandleDeleteAccount(c)
                => IF user[c] = None THEN UNCHANGED vars
                   ELSE IF ~matches
                   THEN /\ toast' = Toast(c, "ConfirmationMismatch")
                        /\ UNCHANGED <<acct, acctLog, storeVars, acctStore>>
                   ELSE /\ acct'[c] # IdleCall
                        /\ acctLog'[c] = <<"user_votes.user_id">>]_vars

\* A tab was refused for a text with a trailing blank, its account intact,
\* while the other tab's call runs on a text typed in capitals.
C14_Witness ==
  \E c, d \in Clients :
    /\ toast = Toast(c, "ConfirmationMismatch")
    /\ deleteConfirmText[c] = Append(ConfirmPhrase, " ")
    /\ acct[c] = IdleCall /\ user[c] \in profiles \cap authUsers
    /\ acct[d] # IdleCall
    /\ deleteConfirmText[d] # ConfirmPhrase

\* --------------------------------------------------------------------- C15
\* The handleDeleteAccount call of tab c resumes in this step ...
AccountResumes(c) == acct[c] # IdleCall /\ acct'[c] # acct[c]

\* ... and ends in this step, after logout / in the catch block.
AccountSucceeds(c) ==
  AccountResumes(c) /\ acct'[c] = IdleCall /\ toast' = Toast(c, "AccountDeleted")
AccountFails(c) ==
  AccountResumes(c) /\ acct'[c] = IdleCall /\ toast' = Toast(c, "AccountDeleteFailed")

\* The rows a delete request of the account deletion is filtered to.
AcctTarget(name, uid, ids) ==
  CASE name = "user_votes.user_id" -> {r \in BagToSet(userVotes) : r.user_id = uid}
    [] name = "post_likes.user_id" -> {r \in postLikes : r.user_id = uid}
    [] name = "poll_options.poll_id" -> {o \in DOMAIN pollOptions : pollOptions[o].poll_id \in ids}
    [] name = "user_votes.poll_id" -> {r \in BagToSet(userVotes) : r.poll_id \in ids}
    [] name = "comments.poll_id" -> {r \in comments : r.poll_id \in ids}
    [] name = "polls.author_id" -> PollsOf(uid)
    [] name = "comments.post_id" -> {r \in comments : r.post_id \in ids}
    [] name = "post_likes.post_id" -> {r \in postLikes : r.post_id \in ids}
    [] name = "posts.author_id" -> PostsOf(uid)
    [] name = "comments.author_id" -> {r \in comments : r.author_id = uid}
    [] name = "profiles.id" -> {uid} \cap profiles
    [] name = "auth.deleteUser" -> {uid} \cap authUsers
    [] OTHER -> {}

\* C15: a request of the account deletion that fails ends the sequence in
\* that step with the failure notification: a delete that leaves rows it was
\* filtered to, and an enumeration that does not hand the user's ids to the
\* handler, are followed by no further request, so that the profile and the
\* authentication record are not deleted after a failed step.
C15_AccountDeleteAbortsOnError ==
  [][\A c \in Clients :
       AccountResumes(c) =>
         \A name \in {AccountSteps[acct[c].pc]}, uid \in {acct[c].user_id},
            ids \in {acct[c].ids} :
           /\ (AcctTarget(name, uid, ids) # {})' => AccountFails(c)
           /\ (name = "polls.select" /\ acct'[c] # IdleCall)
                => acct'[c].ids = PollsOf(uid)
           /\ (name = "posts.select" /\ acct'[c] # IdleCall)
                => acct'[c].ids = PostsOf(uid)]_vars

\* --------------------------------------------------------------------- C16
\* No row of the store refers to user uid, directly or through a poll or a
\* post of uid, and uid has no profile and no authentication record.
NoTraceOf(uid) ==
  LET P == {p \in Polls : InitPolls[p].author_id = uid}
      Q == {q \in DOMAIN InitPosts : InitPosts[q].author_id = uid}
  IN  /\ \A r \in BagToSet(userVotes) : r.user_id # uid /\ r.poll_id \notin P
      /\ \A r \in postLikes : r.user_id # uid /\ r.post_id \notin Q
      /\ \A o \in DOMAIN pollOptions : pollOptions[o].poll_id \notin P
      /\ \A r \in comments :
           r.author_id # uid /\ r.poll_id \notin P /\ r.post_id \notin Q
      /\ PollsOf(uid) = {} /\ PostsOf(uid) = {}
      /\ uid \notin profiles /\ uid \notin authUsers

\* C16: when handleDeleteAccount reports success for a user, no post, poll,
\* comment, poll option, vote, like or profile row refers to the user or to a
\* poll or post of the user, and the authentication record is gone.
C16_AccountDeletedCompletely ==
  [][\A c \in Clients :
       AccountSucceeds(c) => \A uid \in {acct[c].user_id} : NoTraceOf(uid)']_vars

\* --------------------------------------------------------------------- C17
\* C17: no step of a deletion sequence removes a row that another row still
\* refers to: a poll_options row goes only when no user_votes row has its id
\* as option_id, a polls row only when no comment, vote or option has its id
\* as poll_id, a posts row only when no comment or like has its id as post_id.
C17_ChildrenBeforeParents ==
  [][/\ \A o \in DOMAIN pollOptions \ DOMAIN pollOptions' :
          \A r \in BagToSet(userVotes') : r.option_id # o
     /\ \A p \in DOMAIN polls \ DOMAIN polls' :
          /\ \A r \in BagToSet(userVotes') : r.poll_id # p
          /\ \A r \in comments' : r.poll_id # p
          /\ \A o \in DOMAIN pollOptions' : pollOptions'[o].poll_id # p
     /\ \A q \in DOMAIN posts \ DOMAIN posts' :
          /\ \A r \in comments' : r.post_id # q
          /\ \A r \in postLikes' : r.post_id # q]_vars

\* --------------------------------------------------------------------- C18
\* Request b may directly follow request a in one call.
MayFollow(a, b) ==
  \/ StepOf(b) = StepOf(a) + 1
  \/ a = "polls.select" /\ b = "polls.author_id"
  \/ a = "posts.select" /\ b = "posts.author_id"

\* C18: the requests of one handleDeleteAccount call are sent one at a time
\* in the order: votes and likes of the user; enumeration of the user's
\* polls, then options, votes and comments of those polls; the polls;
\* enumeration of the user's posts, then comments and likes of those posts;
\* the posts; the user's comments; the profile; the authentication record.
\* The batched deletes after an enumeration are left out exactly when the
\* user has no poll (no post) to enumerate.
C18_AccountDeleteOrder ==
  /\ [](\A c \in Clients :
          /\ (acct[c] = IdleCall) <=> (acctLog[c] = <<>>)
          /\ acct[c] # IdleCall
               => /\ acctLog[c][1] = "user_votes.user_id"
                  /\ acctLog[c][Len(acctLog[c])] = AccountSteps[acct[c].pc]
                  /\ \A i \in 1..(Len(acctLog[c]) - 1) :
                       MayFollow(acctLog[c][i], acctLog[c][i + 1]))
  /\ [][\A c \in Clients :
          (AccountResumes(c) /\ acct'[c] # IdleCall)
            => \A uid \in {acct[c].user_id} :
                 /\ AccountSteps[acct[c].pc] = "polls.select"
                      => (AccountSteps[acct'[c].pc] = "polls.author_id"
                            <=> PollsOf(uid) = {})
                 /\ AccountSteps[acct[c].pc] = "posts.select"
                      => (AccountSteps[acct'[c].pc] = "posts.author_id"
                            <=> PostsOf(uid) = {})]_vars

\* --------------------------------------------------------------------- C19
\* C19: logout is called in the step in which auth.admin.deleteUser
\* succeeded and in no other: from then on the tab has no user; the sign-out
\* request is never in flight while the authentication record exists; when
\* the sign-out is answered the call ends with the success notification, and
\* the tab shows the unauthenticated route when the sign-out succeeded, which
\* is always possible; no other step leads to that route or clears the user.
C19_LogoutAfterAuthDeleted ==
  /\ [](\A c \in Clients :
          (acct[c] # IdleCall /\ AccountSteps[acct[c].pc] = "auth.signOut")
            => /\ acct[c].user_id \notin authUsers
               /\ user[c] = None
               /\ ENABLED (HandleDeleteAccountReturn(c) /\ route'[c] = "/auth"))
  /\ [][\A c \in Clients :
          /\ (AccountResumes(c) /\ AccountSteps[acct[c].pc] = "auth.deleteUser"
                /\ authUsers' # authUsers)
               => /\ user'[c] = None
                  /\ acct'[c] # IdleCall
                  /\ AccountSteps[acct'[c].pc] = "auth.signOut"
          /\ (AccountResumes(c) /\ AccountSteps[acct[c].pc] = "auth.signOut")
               => /\ AccountSucceeds(c)
                  /\ user'[c] = None
                  /\ route'[c] \in {"/auth", route[c]}
          /\ (user[c] # None /\ user'[c] = None)
               => /\ AccountSteps[acct[c].pc] = "auth.deleteUser"
                  /\ acct[c].user_id \in authUsers /\ acct[c].user_id \notin authUsers'
          /\ route'[c] # route[c]
               => /\ AccountSteps[acct[c].pc] = "auth.signOut"
                  /\ route'[c] = "/auth"]_vars

\* Every request of the call succeeded: nothing of the user is left, the
\* session is gone and the tab shows the unauthenticated route.
C19_Witness ==
  \E c \in Clients, uid \in Users :
    /\ toast = Toast(c, "AccountDeleted")
    /\ user[c] = None /\ route[c] = "/auth"
    /\ acct[c] = IdleCall
    /\ NoTraceOf(uid)

\* --------------------------------------------------------------------- C20
\* Exactly one of the two references of a comment row is set.
OneParent(r) == (r.post_id # None) # (r.poll_id # None)

\* C20: every comment row the application inserts, from a comment section
\* or as the feedback comment of a published post or poll, has exactly one of
\* post_id and poll_id set: a comment on a post has post_id set to a post
\* and poll_id unset, a comment on a poll the reverse; the same holds for the
\* rows of the insert requests in flight.
C20_CommentHasOneParent ==
  /\ \A r \in comments :
       /\ OneParent(r)
       /\ r.post_id # None => r.post_id \in DOMAIN posts
       /\ r.poll_id # None => r.poll_id \in DOMAIN polls
  /\ \A c \in Clients : com[c] # IdleCall => OneParent(com[c].row)
  /\ \A c \in Clients :
       (form[c] # IdleCall /\ form[c].pc = "comment")
         => /\ form[c].id # None
            /\ form[c].kind = "post" <=> form[c].id \in DOMAIN posts

\* A user's comment on a post and the feedback comment of a new poll are
\* both stored.
C20_Witness ==
  \E r1, r2 \in comments :
    /\ r1.post_id \in DOMAIN InitPosts /\ r1.poll_id = None
    /\ r2.poll_id \in FreshPolls /\ r2.post_id = None
    /\ toast.title = "PollCreated"

\* --------------------------------------------------------------------- C21
\* C21: once handleSubmit of the poll form has finished, with success or
\* with a failure at any of its requests, every poll row in the store has
\* its option rows.
C21_PollCreatedWithOptions ==
  (\A c \in Clients : form[c] = IdleCall)
    => \A p \in DOMAIN polls : OptionsOf(p) # {}

\* --------------------------------------------------------------------- C22
\* C22: the poll form always has between 2 and 5 option fields, addOption at
\* 5 fields and removeOption at 2 fields leaving them as they are; the
\* submission takes the fields as they are when the form is submitted, and
\* the insert of the options stores one row per field, 2 to 5 of them, each
\* for the new poll with votes 0 and the text of its field, in the order of
\* the fields.
C22_TwoToFiveOptions ==
  [][\A c \in FormClients :
       /\ Len(options'[c]) \in MinOptions..MaxOptions
       /\ (Len(options[c]) = MaxOptions /\ AddOption(c))
            => options' = options /\ toast' = Toast(c, "MaxOptionsReached")
       /\ (Len(options[c]) = MinOptions /\ \E i \in 1..MaxOptions : RemoveOption(c, i))
            => options' = options /\ toast' = Toast(c, "CannotRemoveOption")
       /\ (form[c] = IdleCall /\ form'[c] # IdleCall)
            => form'[c].options = options[c]
       /\ pollOptions' # pollOptions
            => \A f \in {form[c]}, new \in {DOMAIN pollOptions' \ DOMAIN pollOptions} :
                 /\ Cardinality(new) = Len(f.options)
                 /\ Cardinality(new) \in MinOptions..MaxOptions
                 /\ \A i \in DOMAIN f.options :
                      /\ FreshOptions[i] \in new
                      /\ pollOptions'[FreshOptions[i]] =
                           [poll_id |-> f.id, text |-> Trim(f.options[i]), votes |-> 0]
                 /\ \A o \in DOMAIN pollOptions : pollOptions'[o] = pollOptions[o]
  ]_vars

\* A poll was published from a form with five fields, the first reading y
\* and the last x.
C22_Witness ==
  /\ toast.title = "PollCreated"
  /\ DOMAIN pollOptions \ DOMAIN InitOptions = {FreshOptions[i] : i \in 1..MaxOptions}
  /\ pollOptions[FreshOptions[1]].text = "y"
  /\ pollOptions[FreshOptions[MaxOptions]].text = "x"

\* --------------------------------------------------------------------- C23
FormStore == <<polls, pollOptions, comments, posts>>

\* getFeedback of tab c resumes on a response that is a failure.
FeedbackFails(c) == \E r \in FailedResponses : GetFeedbackReturn(c, r)

\* handleSubmit of tab c ends with its success toast.
SubmitSucceeds(c) ==
  /\ HandleSubmitReturn(c)
  /\ form'[c] = IdleCall
  /\ toast'.title \in {"PostCreated", "PollCreated"}

\* The comments that are the feedback comment of the post or poll id.
FeedbackCommentsOf(kind, id) ==
  {r \in comments : IF kind = "post" THEN r.post_id = id ELSE r.poll_id = id}

\* C23 as stated: after a failed getFeedback the form holds no feedback, so
\* that a submission inserts no feedback comment.
C23_NoFeedbackAfterFailure ==
  [][\A c \in FormClients : FeedbackFails(c) => aiFeedback'[c] = None]_vars

\* C23, amended: a failed getFeedback changes neither the store nor the
\* submission in flight nor the text and option fields, resets
\* isGettingFeedback, and leaves aiFeedback empty or as it was; a signed-in
\* user with a filled-in form can submit whatever the state of the feedback;
\* the submission takes the feedback the form holds, inserts a feedback
\* comment only if that is not empty, and when it ends with success the post,
\* or the poll with one option row per field, is stored.
C23_FeedbackFailureNeverBlocks ==
  [][\A c \in FormClients :
       /\ FeedbackFails(c)
            => /\ UNCHANGED <<FormStore, form, content, options, route>>
               /\ fb'[c] = IdleCall
               /\ aiFeedback'[c] \in {None, aiFeedback[c]}
       /\ \A kind \in {"post", "poll"} :
            (/\ user[c] # None /\ form[c] = IdleCall /\ Trim(content[c]) # ""
             /\ kind = "poll" => ~SomeOptionBlank(options[c]))
              => ENABLED (HandleSubmit(c, kind) /\ form'[c] # IdleCall)
       /\ (form[c] = IdleCall /\ form'[c] # IdleCall)
            => form'[c].feedback = aiFeedback[c]
       /\ comments' # comments => form[c].feedback # None
       /\ SubmitSucceeds(c)
            => \A f \in {form[c]} :
                 /\ f.kind = "post" => posts' # posts \/ f.feedback # None
                 /\ f.kind = "post" /\ f.feedback # None => f.id \in DOMAIN posts'
                 /\ f.kind = "poll"
                      => /\ f.id \in DOMAIN polls'
                         /\ Cardinality({o \in DOMAIN pollOptions' :
                               pollOptions'[o].poll_id = f.id}) = Len(f.options)
                 /\ (f.feedback = None) <=> (comments' = comments /\
                       (f.id # None => FeedbackCommentsOf(f.kind, f.id) = {}))
  ]_vars

\* getFeedback of the poll form has failed, its toast being the last one
\* shown, and the submission of the poll has stored the poll row without a
\* feedback comment and is inserting the options.
C23_Witness ==
  /\ toast = Toast("c1", "FeedbackFailed")
  /\ fb["c1"] = IdleCall
  /\ form["c1"] # IdleCall
  /\ form["c1"].pc = "options" /\ form["c1"].feedback = None
  /\ form["c1"].id \in DOMAIN polls

\* --------------------------------------------------------------------- C24
\* The username is that of a profile, ignoring case.
UsernameTaken(username) ==
  \E u \in profiles : ToLowerCase(usernames[u]) = ToLowerCase(username)

\* C24: no two profiles have usernames that are equal ignoring case, in any
\* interleaving of registrations; and when the store answers the username
\* lookup of a registration whose username is taken, ignoring case, register
\* ends there, without the sign-up, with 'Username is already taken' (or with
\* the error of a request that failed).
C24_UsernamesUnique ==
  [][/\ \A u, v \in profiles' :
          u # v => ToLowerCase(usernames'[u]) # ToLowerCase(usernames'[v])
     /\ \A c \in Clients :
          (/\ reg[c] # IdleCall /\ reg[c].pc = "username"
           /\ RegisterReturn(c)
           /\ UsernameTaken(reg[c].username))
            => /\ reg'[c] = IdleCall
               /\ toast' \in {Toast(c, "UsernameTaken"), Toast(c, "RequestFailed")}
  ]_vars

\* --------------------------------------------------------------------- C25
\* No fetchComments call, submission or deletion of the section of tab c is
\* in flight, and no change notification is on its way to it.
Quiescent(c) ==
  /\ fetches[c] = {}
  /\ com[c] = IdleCall
  /\ dcom[c] = IdleCall
  /\ notif[c] = 0

\* C25: once the fetches, submissions and deletions of a comment section
\* have completed and its notifications are delivered, the list it shows is
\* the result of the full refetch issued last, the comments of its content in
\* the store in the order of creation: none twice, none missing.
C25_LastRefetchWins ==
  \A c \in ListClients :
    (section[c].mounted /\ Quiescent(c) /\ ~fetchError[c])
      => commentList[c] = StoreList(section[c].contentType, section[c].contentId)

\* --------------------------------------------------------------------- C26
\* A deletion sequence has reached Done or Failed: the handler has shown its
\* last notification and its finally block has run.
PollDeletionEnded(c) ==
  /\ del[c] = IdleCall
  /\ toast \in {Toast(c, "PollDeleted"), Toast(c, "DeleteFailed")}
  /\ ~isDeleting[c]
  /\ ~showDeleteConfirm[c]

AccountDeletionEnded(c) ==
  /\ acct[c] = IdleCall
  /\ toast \in {Toast(c, "AccountDeleted"), Toast(c, "AccountDeleteFailed")}
  /\ ~isDeletingAccount[c]
  /\ ~showDeleteAccountDialog[c]

\* C26: every poll deletion and every account deletion that was started
\* reaches Done or Failed, the store answering every request, whether or not
\* the card or the profile page is unmounted meanwhile; at that point the
\* busy flag is false and the confirmation dialog is closed.
C26_DeletionsTerminate ==
  \A c \in TerminateClients :
    /\ (del[c] # IdleCall) ~> PollDeletionEnded(c)
    /\ (acct[c] # IdleCall) ~> AccountDeletionEnded(c)

\* A poll deletion has ended Failed after its card was unmounted, and an
\* account deletion is running after the tab has left the profile page.
C26_Witness ==
  \E c \in Clients :
    /\ PollDeletionEnded(c)
    /\ toast.title = "DeleteFailed"
    /\ cardPoll[c] = NoCard
    /\ acct[c] # IdleCall
    /\ route[c] # "/profile"

\* --------------------------------------------------------------------- C27
ChannelsOf(c) == {ch \in channels : ch.tab = c}

\* C27: a mounted CommentSection holds at most one subscribed channel, and it
\* is the channel its last effect run created, for the section's current
\* contentType and contentId; a section without a contentId holds none, and
\* none is left of a section that is not mounted.
C27_OneChannelPerSection ==
  \A c \in Clients :
    /\ Cardinality(ChannelsOf(c)) <= 1
    /\ ChannelsOf(c) \subseteq {ChannelOf(c, section[c])}
    /\ (~section[c].mounted \/ section[c].contentId = None) => ChannelsOf(c) = {}

\* The effect has run a second time, for other content than the first time,
\* and the section holds the channel of that content.
C27_Witness ==
  \E c \in Clients :
    /\ section[c].mounted
    /\ section[c].inst = 2
    /\ section[c].contentType = "post"
    /\ ChannelsOf(c) = {ChannelOf(c, section[c])}

\* --------------------------------------------------------------------- C28
\* C28: a handleDeleteComment call sends its delete request only with a user
\* signed in, and changes no row when it is called; when the store has
\* executed the request, the rows that are gone are comments with the id
\* the call was given and the caller as author, and no other row of any
\* table has changed.
C28_DeleteOnlyOwnComment ==
  [][\A c \in Clients :
       /\ (dcom[c] = IdleCall /\ dcom'[c] # IdleCall)
            => /\ user[c] # None
               /\ dcom'[c].author_id = user[c]
               /\ UNCHANGED <<storeVars, acctStore>>
       /\ HandleDeleteCommentReturn(c)
            => /\ comments' \subseteq comments
               /\ \A r \in comments \ comments' :
                    r.id = dcom[c].id /\ r.author_id = dcom[c].author_id
               /\ UNCHANGED <<polls, pollOptions, userVotes, commentSeq, acctStore>>]_vars

\* A comment was written and its author's call has removed it again, while
\* the comment of user B that a call of user A named is still stored.
C28_Witness ==
  /\ commentSeq = 1
  /\ comments = InitComments
  /\ toast.title = "CommentDeleted"
  /\ user[toast.tab] = "A"

\* --------------------------------------------------------------------- C29
\* C29: whenever a mounted card has hasVoted true or a selectedOption, a user
\* is signed in and the user_votes row of that user for the card's poll
\* exists and holds that option.
C29_HasVotedOnlyWithRow ==
  \A c \in Clients :
    (cardPoll[c] # NoCard /\ (hasVoted[c] \/ selectedOption[c] # None))
      => /\ user[c] # None
         /\ selectedOption[c] # None
         /\ SelectVote(cardPoll[c].id, user[c]) = selectedOption[c]

\* --------------------------------------------------------------------- C30
\* No row of the store refers to user uid, directly or through a poll or a
\* post of uid, and uid has no profile.
NoRowsOf(uid) ==
  LET P == {p \in Polls : InitPolls[p].author_id = uid}
      Q == {q \in DOMAIN InitPosts : InitPosts[q].author_id = uid}
  IN  /\ \A r \in BagToSet(userVotes) : r.user_id # uid /\ r.poll_id \notin P
      /\ \A r \in postLikes : r.user_id # uid /\ r.post_id \notin Q
      /\ \A o \in DOMAIN pollOptions : pollOptions[o].poll_id \notin P
      /\ \A r \in comments :
           r.author_id # uid /\ r.poll_id \notin P /\ r.post_id \notin Q
      /\ PollsOf(uid) = {} /\ PostsOf(uid) = {}
      /\ uid \notin profiles

\* C30: when handleDeleteAccount ends with the failure notification, it was
\* the deletion of the authentication record that failed; the profile row
\* and all content of the user are deleted, the authentication record is
\* not; the tab is still signed in as that user and on the same route; and
\* the handler can be called again, a call starting with the first request.
C30_AuthDeleteFailure ==
  [][\A c \in Clients :
       /\ AccountFails(c)
            => /\ AccountSteps[acct[c].pc] = "auth.deleteUser"
               /\ \A uid \in {acct[c].user_id} : NoRowsOf(uid)'
               /\ UNCHANGED <<authUsers, user, route>>
               /\ user[c] = acct[c].user_id
               /\ ~isDeletingAccount'[c]
               /\ ConfirmationMatches(deleteConfirmText'[c])
       /\ (acct[c] = IdleCall /\ acct'[c] # IdleCall)
            => acctLog'[c] = <<AccountSteps[1]>>]_vars

\* --------------------------------------------------------------------- C10
\* C10: no row of comments, user_votes or poll_options references a poll
\* whose row has been deleted.
C10_NoOrphans ==
  /\ \A r \in comments : r.poll_id # None => r.poll_id \in DOMAIN polls
  /\ \A r \in BagToSet(userVotes) : r.poll_id \in DOMAIN polls
  /\ \A o \in DOMAIN pollOptions : pollOptions[o].poll_id \in DOMAIN polls
\* ---------------------------------------------------------------------- C6
\* C6: every rendered percentage is optionVotes / totalVotes * 100 rounded
\* to the nearest integer (halves up), totalVotes being the sum of the
\* option tallies of the card and not the total_votes column, and 0 when
\* that sum is 0; options are rounded one by one, so three options with one
\* vote each show 33, 33, 33.
C6_PercentageRounded ==
  shown # <<>> =>
    LET pd == pollData["c1"]
        total == SumOver(pd, PctOptions)
    IN  /\ DOMAIN shown = PctOptions
        /\ \A o \in PctOptions :
             /\ total = 0 => shown[o] = 0
             /\ total > 0 => /\ 2 * total * shown[o] <= 200 * pd[o] + total
                             /\ 200 * pd[o] + total < 2 * total * (shown[o] + 1)
        /\ (\A o \in PctOptions : pd[o] = 1) => \A o \in PctOptions : shown[o] = 33

\* Three options with one vote each are rendered as 33, 33, 33: the sum is
\* 99 while the total_votes column of the poll is 0.
C6_Witness ==
  /\ shown = [o \in PctOptions |-> 33]
  /\ \A o \in PctOptions : pollData["c1"][o] = 1
  /\ polls["p1"].total_votes = 0
====
